---- MODULE Spec2Model ----
(***************************************************************************)
(* Publication processing pipeline of tgn-app (Convex backend).            *)
(*                                                                         *)
(* One publication is followed from upload through page rasterization      *)
(* (enqueuePublicationProcessing), lead extraction (runPipeline inside     *)
(* runPublicationPipelineInternal) and retry (retryPublicationProcessing). *)
(* Every await of the source is a step boundary: an external HTTP call     *)
(* resolves in one step, a Convex mutation commits in one step, and the    *)
(* synchronous code between two awaits belongs to the step that resumes    *)
(* it.  Workers of mapWithConcurrency that are still running when their    *)
(* Promise.all has already rejected are kept in the state: their pending   *)
(* mutations may still commit later.                                       *)
(*                                                                         *)
(* Fault model: external HTTP calls may fail on any attempt; a response    *)
(* may carry any rows of the declared shape; a mutation whose arguments    *)
(* fail its validators rejects; mutations with valid arguments commit.     *)
(***************************************************************************)
EXTENDS Integers, Sequences, FiniteSets, TLC

\* ---------------------------------------------------------------- bounds
MaxPages == 2          \* largest page_count the analyze service reports
MaxSegments == 3       \* segments the segment service returns in all, over the runs of a behaviour
MaxSegmentsEndToEnd == 2   \* the same, when upload and rasterization are explored too
MaxRetries == 1        \* retries (of either stage) that schedule a job
MaxManualLeads == 1    \* manual leads present before lead extraction starts
MaxItems == 3          \* longest item list given to mapWithConcurrency taken alone
MaxConcurrency == 3    \* largest concurrency given to mapWithConcurrency taken alone
MaxCallAttempts == 4   \* largest maxAttempts given to the retry helper taken alone
MaxUpsertLeads == 2    \* leads given to upsertLeadEnrichment taken alone
MaxUpsertCalls == 3    \* upsertLeadEnrichment calls per lead, taken alone
MaxChunkPages == 4     \* largest page count given to the chunk loop taken alone
MaxChunkSize == 3      \* largest PDF_UPLOAD_BATCH_SIZE given to the chunk loop taken alone
MaxBaseDelay == 3      \* largest PIPELINE_HTTP_BACKOFF_BASE_MS given to the backoff taken alone
MaxMaxDelay == 5       \* largest PIPELINE_HTTP_BACKOFF_MAX_MS given to the backoff taken alone
MaxBackoffAttempt == 3 \* largest attempt number given to the backoff taken alone
RandomSteps == 4       \* Math.random() is drawn from the multiples of 1/RandomSteps in [0, 1)
MaxCoord == 2          \* box coordinates given to the geometry helpers taken alone are 0..MaxCoord
MaxWords == 2          \* longest OCR word list given to wordsInSegment taken alone
ConfidenceMargin == 300   \* confidences given to the createAiLead call taken alone run from this many thousandths below 0 to as many above 1
MaxSegmentsFair == 1    \* segments the segment service returns when every job is followed to its end
MaxJobs == 2           \* invocations of one stage in a behaviour: the first and MaxRetries retried ones
MaxMissedLeads == 2    \* manual leads in all when createMissedLead is explored
MaxSegmentsSerial == 4 \* segments the segment service returns when pages run one at a time
SerialPageConcurrency == 1   \* PIPELINE_PAGE_CONCURRENCY set to its least value

\* ------------------------------------------- configuration (env tunables)
\* The source reads these from the environment with a fallback; the model
\* runs the configuration below.
ChunkSize == 1                  \* PDF_UPLOAD_BATCH_SIZE
PdfMaxAttempts == 2             \* PDF_UPLOAD_MAX_ATTEMPTS
PageMutationConcurrency == 2    \* PAGE_MUTATION_CONCURRENCY
PageConcurrency == 2            \* PIPELINE_PAGE_CONCURRENCY
SegmentConcurrency == 2         \* PIPELINE_SEGMENT_CONCURRENCY
HttpMaxAttempts == 2            \* PIPELINE_HTTP_MAX_ATTEMPTS

VARIABLES
  pub,          \* the publication document
  pages,        \* publicationPages rows, in creation order
  pageOcr,      \* pageOcr rows per page number (index by_publicationId_pageNumber)
  leads,        \* leads rows
  enrichments,  \* leadEnrichments rows per lead (index by_leadId)
  scheduled,    \* jobs handed to ctx.scheduler.runAfter and not yet started
  raster,       \* enqueuePublicationProcessing invocations, in start order
  pipe,         \* runPublicationPipelineInternal invocations, in start order
  renderDims,   \* page geometries the render service reports in this behaviour
  segmentBudget, \* segments the segment service returns in this behaviour
  envConcurrency,  \* PIPELINE_PAGE_CONCURRENCY and PIPELINE_SEGMENT_CONCURRENCY as
                \* runPipeline reads them in this behaviour
  retryResponse, \* what the last retryPublicationProcessing call returned to
                 \* its caller, when the caller is watched in this behaviour
  mwc,          \* one call of mapWithConcurrency taken alone
  cwr,          \* one call of withRetry / postPipelineWithRetry taken alone
  upsertCalls,  \* upsertLeadEnrichment calls made per lead, when taken alone
  chunkLoop,    \* the chunk loop of enqueuePublicationProcessing taken alone
  backoff,      \* one backoff delay of postPipelineWithRetry taken alone
  geometry,     \* one call of assertBbox, overlaps or wordsInSegment taken alone
  leadCall      \* the createAiLead call of one classified segment taken alone

\* What no operation of the program changes.
others == <<renderDims, segmentBudget, envConcurrency, mwc, cwr, upsertCalls,
            chunkLoop, backoff, geometry, leadCall>>

\* What a helper taken alone leaves as it is.
program == <<pub, pages, pageOcr, leads, enrichments, scheduled, raster, pipe,
             retryResponse, renderDims, segmentBudget, envConcurrency>>

vars == <<pub, pages, pageOcr, leads, enrichments, scheduled, raster, pipe,
          retryResponse, others>>

\* ------------------------------------------------------------ small helpers
Min(a, b) == IF a < b THEN a ELSE b
Max(a, b) == IF a > b THEN a ELSE b

RECURSIVE SeqMax(_, _)
\* Math.max(...xs.map(f)) for a non-empty list; f is applied by the caller
SeqMax(xs, n) ==
  IF n = 1 THEN xs[1] ELSE Max(xs[n], SeqMax(xs, n - 1))

SeqToSet(s) == {s[i] : i \in DOMAIN s}

\* --------------------------------------------------------------- statuses
PublicationStatus ==
  {"PAGE_PROCESSING", "PROCESS_PAGE_ERROR", "LEAD_PROCESSING",
   "PROCESS_LEAD_ERROR", "NO_LEADS_FOUND", "LEADS_FOUND", "CONFIRMED"}

NoPublication ==
  [exists |-> FALSE, status |-> "NONE", pageCount |-> 0, numberOfLeads |-> 0,
   processPageAttempt |-> 0, maxPageWidth |-> 0, maxPageHeight |-> 0,
   errorCode |-> "unset", errorMessage |-> "unset"]

\* ------------------------------------------------------ external responses
\* Page geometry the render service may report (width, height).
Dims == {<<1, 2>>, <<2, 1>>}

\* One row of a /pdf/process response.  valid = the row passes the argument
\* validators of createPublicationPage (storage id, numbers).
ProcessRow ==
  [page : 1..MaxPages, width : {1, 2}, height : {1, 2}, valid : BOOLEAN]

\* A row that fails validation is never stored, so its geometry is fixed.
ProcessRows(dims) ==
  {r \in ProcessRow :
     /\ <<r.width, r.height>> \in dims
     /\ ~r.valid => <<r.width, r.height>> = <<1, 2>>}

\* Responses to a chunk call that asked for `expected` pages: any number of
\* rows around the expected one.
ProcessResponses(expected, dims) ==
  UNION {[1..n -> ProcessRows(dims)] : n \in (Max(0, expected - 1))..(expected + 1)}

\* Outcomes of the attempts of one retried call.
AttemptOutcomes(maxAttempts) == [1..maxAttempts -> {"ok", "fail"}]

\* ------------------------------------------------------------- withRetry
\* withRetry / postPipelineWithRetry: attempts are made one at a time until
\* the first success or until maxAttempts were made.
RECURSIVE FirstOk(_, _, _)
FirstOk(outs, attempt, maxAttempts) ==
  IF attempt > maxAttempts THEN 0
  ELSE IF outs[attempt] = "ok" THEN attempt
  ELSE FirstOk(outs, attempt + 1, maxAttempts)

\* A variant that sleeps after every failed attempt, the last included.
RECURSIVE RetryLoop_SleepsAfterLast(_, _, _, _)
RetryLoop_SleepsAfterLast(outs, attempt, maxAttempts, acc) ==
  IF attempt > maxAttempts
  THEN [acc EXCEPT !.thrown = acc.lastError]
  ELSE IF outs[attempt] = "ok"
  THEN [acc EXCEPT !.made = attempt, !.returned = attempt]
  ELSE RetryLoop_SleepsAfterLast(outs, attempt + 1, maxAttempts,
         [acc EXCEPT !.made = attempt, !.lastError = attempt,
                     !.delays = @ + 1, !.sleeps = @ + 1,
                     !.sleptAfter = @ \cup {attempt}])

\* The loop itself.  lastError is the attempt whose error is remembered (0:
\* null), delays the number of delays computed and sleeps the number of
\* sleeps awaited so far.
RECURSIVE RetryLoop(_, _, _, _)
RetryLoop(outs, attempt, maxAttempts, acc) ==
  IF attempt > maxAttempts
  THEN [acc EXCEPT !.thrown = acc.lastError]
  ELSE IF outs[attempt] = "ok"
  THEN [acc EXCEPT !.made = attempt, !.returned = attempt]
  ELSE LET caught == [acc EXCEPT !.made = attempt, !.lastError = attempt]
       IN  RetryLoop(outs, attempt + 1, maxAttempts,
                     IF attempt < maxAttempts
                     THEN [caught EXCEPT !.delays = @ + 1, !.sleeps = @ + 1,
                                         !.sleptAfter = @ \cup {attempt}]
                     ELSE caught)

\* returned / thrown: the attempt whose response is returned, whose error is
\* thrown (0: none).
withRetry(outs, maxAttempts) ==
  LET k == FirstOk(outs, 1, maxAttempts)
      loop == RetryLoop(outs, 1, maxAttempts,
                        [made |-> 0, lastError |-> 0, returned |-> 0,
                         thrown |-> 0, delays |-> 0, sleeps |-> 0,
                         sleptAfter |-> {}])
  IN  [ok |-> k # 0, attempts |-> IF k # 0 THEN k ELSE maxAttempts,
       made |-> loop.made, returned |-> loop.returned, thrown |-> loop.thrown,
       delays |-> loop.delays, sleeps |-> loop.sleeps,
       sleptAfter |-> loop.sleptAfter]

\* ------------------------------------------------------------- mutations
updatePublicationStatus(p, status) == [p EXCEPT !.status = status]

createPublicationPage(rows, run, r) ==
  Append(rows, [pageNumber |-> r.page, pageWidth |-> r.width,
                pageHeight |-> r.height, run |-> run])

\* A variant that records the dimensions of the last page instead of the
\* maxima.
setPublicationPageStats_LastPage(p, sortedResults) ==
  LET n == Len(sortedResults)
  IN  [p EXCEPT
         !.pageCount = n,
         !.maxPageWidth = IF n > 0 THEN sortedResults[n].width ELSE 0,
         !.maxPageHeight = IF n > 0 THEN sortedResults[n].height ELSE 0]

setPublicationPageStats(p, sortedResults) ==
  LET n == Len(sortedResults)
  IN  [p EXCEPT
         !.pageCount = n,
         !.maxPageWidth =
            IF n > 0 THEN SeqMax([i \in 1..n |-> sortedResults[i].width], n) ELSE 0,
         !.maxPageHeight =
            IF n > 0 THEN SeqMax([i \in 1..n |-> sortedResults[i].height], n) ELSE 0]

\* [...results].sort((a, b) => a.page - b.page): stable insertion by page
RECURSIVE InsertByPage(_, _)
InsertByPage(sorted, r) ==
  IF sorted = <<>> THEN <<r>>
  ELSE IF Head(sorted).page <= r.page
       THEN <<Head(sorted)>> \o InsertByPage(Tail(sorted), r)
       ELSE <<r>> \o sorted

RECURSIVE SortByPage(_)
SortByPage(results) ==
  IF results = <<>> THEN <<>>
  ELSE InsertByPage(SortByPage(SubSeq(results, 1, Len(results) - 1)),
                    results[Len(results)])

\* -------------------------------------------------------------- scheduler
NothingScheduled == [rasterJobs |-> 0, pipelineJobs |-> 0]

ScheduleRaster(s) == [s EXCEPT !.rasterJobs = @ + 1]
SchedulePipeline(s) == [s EXCEPT !.pipelineJobs = @ + 1]

\* ------------------------------------------------------------------ Init
\* Nothing uploaded yet.
NothingUploaded ==
  /\ pub = NoPublication
  /\ pages = <<>>
  /\ pageOcr = [n \in 1..MaxPages |-> <<>>]
  /\ leads = {}
  /\ enrichments = <<>>
  /\ scheduled = NothingScheduled
  /\ raster = <<>>
  /\ pipe = <<>>

\* The whole pipeline is explored against a render service that reports one
\* page geometry, the rasterization stage alone against both; the lead
\* extraction stage alone is explored with one segment more than the whole.
\* No call of the helper is under way.
NoMapCall == [pc |-> "idle"]
NoRetryCall == [pc |-> "idle"]
NoUpsertCalls == <<>>

\* The environment sets neither concurrency: the fallbacks apply.
DefaultConcurrency ==
  envConcurrency = [page |-> PageConcurrency, segment |-> SegmentConcurrency]

NoChunkLoop == [pc |-> "idle"]
NoBackoff == [pc |-> "idle"]
NoGeometryCall == [pc |-> "idle"]
NoLeadCall == [pc |-> "idle"]
NoHelperCalls ==
  /\ mwc = NoMapCall /\ cwr = NoRetryCall /\ upsertCalls = NoUpsertCalls
  /\ chunkLoop = NoChunkLoop /\ backoff = NoBackoff
  /\ geometry = NoGeometryCall /\ leadCall = NoLeadCall

Unwatched ==
  [watched |-> FALSE, called |-> FALSE, queued |-> FALSE, status |-> "NONE"]

Init ==
  /\ NothingUploaded
  /\ renderDims = {<<1, 2>>}
  /\ segmentBudget = MaxSegmentsEndToEnd
  /\ retryResponse = Unwatched
  /\ NoHelperCalls
  /\ DefaultConcurrency

RasterInit ==
  /\ NothingUploaded
  /\ renderDims = Dims
  /\ segmentBudget = 0
  /\ retryResponse = Unwatched
  /\ NoHelperCalls
  /\ DefaultConcurrency

\* ------------------------------------------------ createPublicationUpload
createPublicationUpload ==
  /\ ~pub.exists
  /\ pub' = [exists |-> TRUE, status |-> "PAGE_PROCESSING", pageCount |-> 0,
             numberOfLeads |-> 0, processPageAttempt |-> 0,
             maxPageWidth |-> 0, maxPageHeight |-> 0,
             errorCode |-> "unset", errorMessage |-> "unset"]
  /\ scheduled' = ScheduleRaster(scheduled)
  /\ UNCHANGED <<pages, pageOcr, leads, enrichments, raster, pipe, retryResponse, others>>

\* ------------------------------------------- enqueuePublicationProcessing
NewRasterJob ==
  [pc |-> "analyze", pageCount |-> 0, startPage |-> 1, results |-> <<>>,
   sortedResults |-> <<>>, index |-> 1, inflight |-> {}, calls |-> <<>>,
   outcome |-> "running", scheduledPipeline |-> 0, mismatchAt |-> 0,
   analyzed |-> "none", retired |-> FALSE]

\* calls: the /pdf/process requests issued so far, one entry per attempt;
\* mismatchAt: their number when a chunk failed the result-count check (0 if
\* none did).  Both are history of the invocation, kept for the properties.
\* The local variables of an invocation that has ended are gone; only what
\* its still-running workers read is kept.
RetireRaster(job) ==
  IF job.pc # "done" THEN job
  ELSE [job EXCEPT !.retired = TRUE, !.pageCount = 0, !.startPage = 1,
                   !.results = <<>>, !.calls = <<>>, !.mismatchAt = 0,
                   !.analyzed = "none",
                   !.sortedResults = IF job.inflight = {} THEN <<>> ELSE @,
                   !.index = IF job.inflight = {} THEN 1 ELSE @]

\* The scheduler starts the action.
RasterStart ==
  /\ scheduled.rasterJobs > 0
  /\ scheduled' = [scheduled EXCEPT !.rasterJobs = @ - 1]
  /\ raster' = Append([k \in DOMAIN raster |-> RetireRaster(raster[k])],
                      NewRasterJob)
  /\ UNCHANGED <<pub, pages, pageOcr, leads, enrichments, pipe, retryResponse, others>>

\* A variant that waits for a worker even when there is no page.
StartPageWorkers_AwaitsNoWorker(job, sortedResults) ==
  LET n == Len(sortedResults)
      w == Min(Max(1, PageMutationConcurrency), n)
  IN  [job EXCEPT !.sortedResults = sortedResults,
                  !.index = w + 1,
                  !.inflight = 1..w,
                  !.pc = "persist"]

\* mapWithConcurrency over sortedResults: min(limit, n) workers each claim
\* an index before any of them is resumed.
StartPageWorkers(job, sortedResults) ==
  LET n == Len(sortedResults)
      w == Min(Max(1, PageMutationConcurrency), n)
  IN  [job EXCEPT !.sortedResults = sortedResults,
                  !.index = w + 1,
                  !.inflight = 1..w,
                  !.pc = IF n = 0 THEN "stats" ELSE "persist"]

\* Responses of /pdf/analyze: the page count is absent (or null), is a
\* number that is negative or not an integer (value -1 stands for these), or
\* is a non-negative integer.
AnalyzeResponses ==
  {[kind |-> "missing", value |-> 0], [kind |-> "invalid", value |-> -1]}
     \cup {[kind |-> "count", value |-> n] : n \in 0..MaxPages}

\* analyze.page_count ?? analyze.pageCount ?? 0
PageCountOf(analyze) == IF analyze.kind = "missing" THEN 0 ELSE analyze.value

\* storage.getUrl, then /pdf/analyze under withRetry, then the page-count
\* check.  analyzed: the kind of response the call returned.
RasterAnalyze(j) ==
  /\ raster[j].pc = "analyze"
  /\ \E urlFound \in BOOLEAN, outs \in AttemptOutcomes(PdfMaxAttempts),
        analyze \in AnalyzeResponses :
       LET call == withRetry(outs, PdfMaxAttempts)
           pageCount == PageCountOf(analyze)
           good == urlFound /\ call.ok /\ pageCount >= 0
           seen == [raster[j] EXCEPT
                      !.analyzed = IF urlFound /\ call.ok THEN analyze.kind ELSE @]
       IN  raster' =
             [raster EXCEPT ![j] =
                IF ~good THEN [seen EXCEPT !.pc = "catch"]
                ELSE IF pageCount = 0
                     THEN StartPageWorkers([seen EXCEPT !.pageCount = 0], <<>>)
                     ELSE [seen EXCEPT !.pageCount = pageCount, !.pc = "chunks"]]
  /\ UNCHANGED <<pub, pages, pageOcr, leads, enrichments, scheduled, pipe, retryResponse, others>>

\* One pass of the chunk loop: upload URLs, /pdf/process under withRetry,
\* the result-count check, the push of the rows.
\* A variant of the result-count check that accepts every response.
ChunkCountOk_AcceptsAny(rows, expectedChunkPages) == TRUE

\* The check of a chunk's result count against its window size.
ChunkCountOk(rows, expectedChunkPages) == Len(rows) = expectedChunkPages

\* A variant that gives every window chunkSize pages.
ChunkEnd_FullWindow(startPage, pageCount, chunkSize) == startPage + chunkSize - 1

\* The last page of the window that starts at startPage.
ChunkEnd(startPage, pageCount, chunkSize) ==
  Min(pageCount, startPage + chunkSize - 1)

RasterChunk(j) ==
  /\ raster[j].pc = "chunks"
  /\ LET job == raster[j]
         startPage == job.startPage
         endPage == ChunkEnd(startPage, job.pageCount, ChunkSize)
         expectedChunkPages == endPage - startPage + 1
     IN  \E outs \in AttemptOutcomes(PdfMaxAttempts),
            rows \in ProcessResponses(expectedChunkPages, renderDims) :
           LET call == withRetry(outs, PdfMaxAttempts)
               made == [a \in 1..call.attempts |->
                          [startPage |-> startPage, endPage |-> endPage,
                           uploads |-> expectedChunkPages]]
               withCalls == [job EXCEPT !.calls = @ \o made]
               seen == [withCalls EXCEPT
                          !.mismatchAt =
                             IF Len(rows) # expectedChunkPages
                             THEN Len(withCalls.calls) ELSE @]
           IN  raster' =
                 [raster EXCEPT ![j] =
                    IF ~call.ok
                    THEN [withCalls EXCEPT !.pc = "catch"]
                    ELSE IF ~ChunkCountOk(rows, expectedChunkPages)
                    THEN [seen EXCEPT !.pc = "catch"]
                    ELSE LET results == job.results \o rows
                             next == startPage + ChunkSize
                         IN  IF next <= job.pageCount
                             THEN [seen EXCEPT !.results = results,
                                               !.startPage = next]
                             ELSE StartPageWorkers(
                                    [seen EXCEPT !.results = results,
                                                 !.startPage = next],
                                    SortByPage(results))]
  /\ UNCHANGED <<pub, pages, pageOcr, leads, enrichments, scheduled, pipe, retryResponse, others>>

\* A worker's createPublicationPage call returns.  On success the row is
\* inserted and the worker claims the next index; on rejection the worker
\* ends and, if Promise.all is still awaited, the catch block is entered.
\* Workers of a job whose Promise.all already rejected keep running.
RasterPageDone(j, i) ==
  /\ i \in raster[j].inflight
  /\ LET job == raster[j]
         row == job.sortedResults[i]
         n == Len(job.sortedResults)
         accepted == row.valid /\ pub.exists
         claimed == IF accepted /\ job.index <= n THEN {job.index} ELSE {}
         inflight == (job.inflight \ {i}) \cup claimed
     IN  /\ pages' = IF accepted THEN createPublicationPage(pages, j, row)
                     ELSE pages
         /\ raster' =
              [raster EXCEPT ![j] =
                 [@ EXCEPT
                    !.inflight = inflight,
                    !.index = IF claimed = {} THEN @ ELSE @ + 1,
                    !.pc = IF job.pc # "persist" THEN @
                           ELSE IF ~accepted THEN "catch"
                           ELSE IF inflight = {} THEN "stats"
                           ELSE @]]
  /\ UNCHANGED <<pub, pageOcr, leads, enrichments, scheduled, pipe, retryResponse, others>>

RasterStats(j) ==
  /\ raster[j].pc = "stats"
  /\ pub' = setPublicationPageStats(pub, raster[j].sortedResults)
  /\ raster' = [raster EXCEPT ![j].pc = "status"]
  /\ UNCHANGED <<pages, pageOcr, leads, enrichments, scheduled, pipe, retryResponse, others>>

RasterStatus(j) ==
  /\ raster[j].pc = "status"
  /\ pub' = updatePublicationStatus(pub, "LEAD_PROCESSING")
  /\ raster' = [raster EXCEPT ![j].pc = "schedule"]
  /\ UNCHANGED <<pages, pageOcr, leads, enrichments, scheduled, pipe, retryResponse, others>>

RasterSchedule(j) ==
  /\ raster[j].pc = "schedule"
  /\ scheduled' = SchedulePipeline(scheduled)
  /\ raster' = [raster EXCEPT ![j].pc = "done", ![j].outcome = "ok",
                              ![j].scheduledPipeline = @ + 1]
  /\ UNCHANGED <<pub, pages, pageOcr, leads, enrichments, pipe, retryResponse, others>>

\* catch: status PROCESS_PAGE_ERROR, then "Error processing publication" is
\* thrown to the caller.
RasterCatch(j) ==
  /\ raster[j].pc = "catch"
  /\ pub' = updatePublicationStatus(pub, "PROCESS_PAGE_ERROR")
  /\ raster' = [raster EXCEPT ![j].pc = "done", ![j].outcome = "error"]
  /\ UNCHANGED <<pages, pageOcr, leads, enrichments, scheduled, pipe, retryResponse, others>>

\* -------------------------------------------- retryPublicationProcessing
\* The mutation as a function of the publication it reads: the patched
\* document, the job it schedules and the value it returns.
\* A variant whose no-op branch still counts an attempt.
retryPublicationProcessing_CountsNoOp(p) ==
  IF p.status = "PROCESS_PAGE_ERROR"
  THEN [pub |-> [p EXCEPT !.status = "PAGE_PROCESSING",
                          !.processPageAttempt = @ + 1,
                          !.errorCode = "unset", !.errorMessage = "unset"],
        job |-> "raster", queued |-> TRUE, status |-> "PAGE_PROCESSING"]
  ELSE IF p.status = "PROCESS_LEAD_ERROR"
  THEN [pub |-> [p EXCEPT !.status = "LEAD_PROCESSING",
                          !.errorCode = "unset", !.errorMessage = "unset"],
        job |-> "pipeline", queued |-> TRUE, status |-> "LEAD_PROCESSING"]
  ELSE [pub |-> [p EXCEPT !.processPageAttempt = (@ + 1) % (MaxRetries + 2)],
        job |-> "none", queued |-> FALSE, status |-> p.status]

\* A variant in which every retry restarts rasterization.
retryPublicationProcessing_AlwaysRasterize(p) ==
  IF p.status \in {"PROCESS_PAGE_ERROR", "PROCESS_LEAD_ERROR"}
  THEN [pub |-> [p EXCEPT !.status = "PAGE_PROCESSING",
                          !.processPageAttempt = @ + 1],
        job |-> "raster", queued |-> TRUE, status |-> "PAGE_PROCESSING"]
  ELSE [pub |-> p, job |-> "none", queued |-> FALSE, status |-> p.status]

retryPublicationProcessing(p) ==
  IF p.status = "PROCESS_PAGE_ERROR"
  THEN [pub |-> [p EXCEPT !.status = "PAGE_PROCESSING",
                          !.processPageAttempt = @ + 1,
                          !.errorCode = "unset", !.errorMessage = "unset"],
        job |-> "raster", queued |-> TRUE, status |-> "PAGE_PROCESSING"]
  ELSE IF p.status = "PROCESS_LEAD_ERROR"
  THEN [pub |-> [p EXCEPT !.status = "LEAD_PROCESSING",
                          !.errorCode = "unset", !.errorMessage = "unset"],
        job |-> "pipeline", queued |-> TRUE, status |-> "LEAD_PROCESSING"]
  ELSE [pub |-> p, job |-> "none", queued |-> FALSE, status |-> p.status]

\* Every pipeline job but the first was scheduled by a retry.
LeadRetriesTaken == Max(0, Len(pipe) + scheduled.pipelineJobs - 1)

\* The retry mutation applied to the publication.  The guards only bound
\* how many retries a run of the model takes.
RetryPublicationProcessing ==
  /\ pub.exists
  /\ pub.status \in {"PROCESS_PAGE_ERROR", "PROCESS_LEAD_ERROR"} =>
       pub.processPageAttempt + LeadRetriesTaken < MaxRetries
  /\ LET r == retryPublicationProcessing(pub)
     IN  /\ pub' = r.pub
         /\ scheduled' = IF r.job = "raster" THEN ScheduleRaster(scheduled)
                         ELSE IF r.job = "pipeline" THEN SchedulePipeline(scheduled)
                         ELSE scheduled
         /\ retryResponse' =
              IF retryResponse.watched
              THEN [retryResponse EXCEPT !.called = TRUE, !.queued = r.queued,
                                         !.status = r.status]
              ELSE retryResponse
  /\ UNCHANGED <<pages, pageOcr, leads, enrichments, raster, pipe, others>>

\* ------------------------------------------------- lead-table mutations
ActiveLeads(rows) == {l \in rows : ~l.isDeleted}

\* A variant that soft-deletes the leads of every category.
clearAiLeads_EveryCategory(rows) == {[l EXCEPT !.isDeleted = TRUE] : l \in rows}

clearAiLeads(rows) ==
  {IF l.category = "AI_LEAD" THEN [l EXCEPT !.isDeleted = TRUE] ELSE l : l \in rows}

createAiLead(rows, id, pageNumber) ==
  rows \cup {[id |-> id, pageNumber |-> pageNumber, category |-> "AI_LEAD",
              isDeleted |-> FALSE]}

\* A variant that counts the machine leads only.
finalizeLeadProcessing_AiOnly(p, rows) ==
  LET activeLeadCount ==
        Cardinality({l \in ActiveLeads(rows) : l.category = "AI_LEAD"})
  IN  [p EXCEPT !.numberOfLeads = activeLeadCount,
                !.status = IF activeLeadCount > 0 THEN "LEADS_FOUND"
                           ELSE "NO_LEADS_FOUND"]

finalizeLeadProcessing(p, rows) ==
  LET activeLeadCount == Cardinality(ActiveLeads(rows))
  IN  [p EXCEPT !.numberOfLeads = activeLeadCount,
                !.status = IF activeLeadCount > 0 THEN "LEADS_FOUND"
                           ELSE "NO_LEADS_FOUND"]

\* A variant of the payload that stamps startedAt whatever the status.
EnrichmentPayload_AlwaysStarted(status, errorMessage) ==
  [status |-> status,
   extracted |-> status = "DONE",
   errorMessage |-> errorMessage,
   startedAt |-> TRUE,
   completedAt |-> status \in {"DONE", "ERROR"}]

\* A variant whose patch leaves the fields the payload does not set.
upsertLeadEnrichment_KeepsUnsetFields(rows, status, errorMessage) ==
  LET payload == [status |-> status,
                  extracted |-> status = "DONE",
                  errorMessage |-> errorMessage,
                  startedAt |-> status = "PROCESSING",
                  completedAt |-> status \in {"DONE", "ERROR"}]
  IN  IF rows # <<>>
      THEN [rows EXCEPT ![1] =
              [status |-> status,
               extracted |-> @.extracted \/ payload.extracted,
               errorMessage |-> IF errorMessage # "none" THEN errorMessage
                                ELSE @.errorMessage,
               startedAt |-> @.startedAt \/ payload.startedAt,
               completedAt |-> @.completedAt \/ payload.completedAt]]
      ELSE <<payload>>

\* upsertLeadEnrichment on the rows of one lead (index by_leadId): the first
\* row is patched with the whole payload, or a row is inserted.
EnrichmentPayload(status, errorMessage) ==
  [status |-> status,
   extracted |-> status = "DONE",
   errorMessage |-> errorMessage,
   startedAt |-> status = "PROCESSING",
   completedAt |-> status \in {"DONE", "ERROR"}]

upsertLeadEnrichment(rows, status, errorMessage) ==
  IF rows # <<>>
  THEN [rows EXCEPT ![1] = EnrichmentPayload(status, errorMessage)]
  ELSE <<EnrichmentPayload(status, errorMessage)>>

EnrichmentRows(id) == IF id \in DOMAIN enrichments THEN enrichments[id] ELSE <<>>

PutEnrichment(id, rows) ==
  [k \in DOMAIN enrichments \cup {id} |->
     IF k = id THEN rows ELSE enrichments[k]]

\* A variant of upsertPageOcr that inserts a row on every call.
upsertPageOcr_AlwaysInserts(rows, payload) == Append(rows, payload)

\* upsertPageOcr on the rows of one page (index by_publicationId_pageNumber).
upsertPageOcr(rows, payload) ==
  IF rows # <<>> THEN [rows EXCEPT ![1] = payload] ELSE <<payload>>

\* ------------------------------------------------------------ runPipeline
\* Responses of /segment/page: each segment either passes assertBbox or not.
SegmentResponses(most) ==
  UNION {[1..n -> [valid : BOOLEAN]] : n \in 0..most}

NewSegment(valid) == [valid |-> valid, st |-> "idle", enr |-> "none"]

SegmentRunning == {"classify", "createLead", "upsertProc", "enrich", "upsertFinal"}
SegmentReturned == {"ret0", "ret1"}
PageEnded == {"ok", "failed"}

NewPageWorker == [st |-> "idle", segs |-> <<>>, sidx |-> 1, count |-> 0]

NewPipeJob ==
  [pc |-> "clear", pgs |-> <<>>, pidx |-> 1, pw |-> <<>>, finalized |-> 0,
   outcome |-> "running", failedPages |-> 0, createdLeadCount |-> 0,
   segTotal |-> 0, retired |-> FALSE]

RECURSIVE SegmentsReturned(_, _)
\* Segments the segment service has returned to the first n invocations.
SegmentsReturned(jobs, n) ==
  IF n = 0 THEN 0 ELSE jobs[n].segTotal + SegmentsReturned(jobs, n - 1)

PipeHasRunningSegments(job) ==
  \E i \in DOMAIN job.pw : \E k \in DOMAIN job.pw[i].segs :
     job.pw[i].segs[k].st \in SegmentRunning

RetirePipe(job) ==
  IF job.pc # "done" THEN job
  ELSE IF PipeHasRunningSegments(job) THEN [job EXCEPT !.retired = TRUE]
  ELSE [job EXCEPT !.retired = TRUE, !.pgs = <<>>, !.pw = <<>>, !.pidx = 1,
                   !.failedPages = 0, !.createdLeadCount = 0]

PipeStart ==
  /\ scheduled.pipelineJobs > 0
  /\ scheduled' = [scheduled EXCEPT !.pipelineJobs = @ - 1]
  /\ pipe' = Append([k \in DOMAIN pipe |-> RetirePipe(pipe[k])], NewPipeJob)
  /\ raster' = [k \in DOMAIN raster |-> RetireRaster(raster[k])]
  /\ UNCHANGED <<pub, pages, pageOcr, leads, enrichments, retryResponse, others>>

PipeClear(j) ==
  /\ pipe[j].pc = "clear"
  /\ leads' = clearAiLeads(leads)
  /\ pipe' = [pipe EXCEPT ![j].pc = "setStatus"]
  /\ UNCHANGED <<pub, pages, pageOcr, enrichments, scheduled, raster, retryResponse, others>>

PipeSetStatus(j) ==
  /\ pipe[j].pc = "setStatus"
  /\ pub.exists
  /\ pub' = updatePublicationStatus(pub, "LEAD_PROCESSING")
  /\ pipe' = [pipe EXCEPT ![j].pc = "query"]
  /\ UNCHANGED <<pages, pageOcr, leads, enrichments, scheduled, raster, retryResponse, others>>

\* A variant in which the workers of a failed page stop claiming segments.
ClaimSegment_StopsWhenFailed(pg) ==
  IF pg.sidx > Len(pg.segs) \/ pg.st = "failed" THEN pg
  ELSE [pg EXCEPT !.segs[pg.sidx].st =
                     IF pg.segs[pg.sidx].valid THEN "classify" ELSE "rejected",
                  !.sidx = @ + 1]

\* mapWithConcurrency, one worker resuming: it claims the next unclaimed
\* segment of the page.  A segment whose box fails assertBbox rejects at once.
ClaimSegment(pg) ==
  IF pg.sidx > Len(pg.segs) THEN pg
  ELSE [pg EXCEPT !.segs[pg.sidx].st =
                     IF pg.segs[pg.sidx].valid THEN "classify" ELSE "rejected",
                  !.sidx = @ + 1]

RECURSIVE ClaimSegments(_, _)
ClaimSegments(pg, workers) ==
  IF workers = 0 THEN pg ELSE ClaimSegments(ClaimSegment(pg), workers - 1)

\* A variant in which a failed page still reports the leads it created.
SettlePage_FailedPageCounts(pg) ==
  IF pg.st # "segs" THEN pg
  ELSE IF \E k \in DOMAIN pg.segs : pg.segs[k].st = "rejected"
  THEN [pg EXCEPT !.st = "failed",
                  !.count = Cardinality({k \in DOMAIN pg.segs :
                                           pg.segs[k].st = "ret1"})]
  ELSE IF \A k \in DOMAIN pg.segs : pg.segs[k].st \in SegmentReturned
  THEN [pg EXCEPT !.st = "ok",
                  !.count = Cardinality({k \in DOMAIN pg.segs :
                                           pg.segs[k].st = "ret1"})]
  ELSE pg

\* A variant that counts every segment that returned.
SettlePage_CountsReturned(pg) ==
  IF pg.st # "segs" THEN pg
  ELSE IF \E k \in DOMAIN pg.segs : pg.segs[k].st = "rejected"
  THEN [pg EXCEPT !.st = "failed", !.count = 0]
  ELSE IF \A k \in DOMAIN pg.segs : pg.segs[k].st \in SegmentReturned
  THEN [pg EXCEPT !.st = "ok", !.count = Len(pg.segs)]
  ELSE pg

\* The page mapper awaiting its segments: the first rejection fails the page
\* (try/catch of the page mapper); when every segment has returned the page
\* is ok with the sum of the returned values.
SettlePage(pg) ==
  IF pg.st # "segs" THEN pg
  ELSE IF \E k \in DOMAIN pg.segs : pg.segs[k].st = "rejected"
  THEN [pg EXCEPT !.st = "failed", !.count = 0]
  ELSE IF \A k \in DOMAIN pg.segs : pg.segs[k].st \in SegmentReturned
  THEN [pg EXCEPT !.st = "ok",
                  !.count = Cardinality({k \in DOMAIN pg.segs :
                                           pg.segs[k].st = "ret1"})]
  ELSE pg

\* A variant in which the first failed page ends the page stage.
AfterPage_StopAtFailure(job, i, pg) ==
  LET ended == pg.st \in PageEnded /\ job.pw[i].st \notin PageEnded
      pw1 == [job.pw EXCEPT ![i] = pg]
  IN  [job EXCEPT !.pw = pw1,
                  !.pc = IF job.pc = "pages" /\ ended /\ pg.st = "failed"
                         THEN "finalize" ELSE @]

\* The page-level worker whose page just ended claims the next page; when
\* the last worker ends, runPipeline goes on to finalizeLeadProcessing.
AfterPage(job, i, pg) ==
  LET ended == pg.st \in PageEnded /\ job.pw[i].st \notin PageEnded
      claim == ended /\ job.pidx <= Len(job.pgs)
      pw1 == [job.pw EXCEPT ![i] = pg]
      pw2 == IF claim THEN [pw1 EXCEPT ![job.pidx].st = "ocr"] ELSE pw1
      allEnded == \A k \in DOMAIN pw2 : pw2[k].st \in PageEnded
  IN  [job EXCEPT !.pw = pw2,
                  !.pidx = IF claim THEN @ + 1 ELSE @,
                  !.pc = IF job.pc = "pages" /\ ended /\ allEnded
                         THEN "finalize" ELSE @]

\* getPublicationPagesInternal, then the page workers start.
PipeQuery(j) ==
  /\ pipe[j].pc = "query"
  /\ LET n == Len(pages)
         w == Min(Max(1, envConcurrency.page), n)
     IN  pipe' = [pipe EXCEPT ![j] =
                    [@ EXCEPT !.pgs = pages,
                              !.pw = [i \in 1..n |->
                                        IF i <= w
                                        THEN [NewPageWorker EXCEPT !.st = "ocr"]
                                        ELSE NewPageWorker],
                              !.pidx = w + 1,
                              !.pc = IF n = 0 THEN "finalize" ELSE "pages"]]
  /\ UNCHANGED <<pub, pages, pageOcr, leads, enrichments, scheduled, raster, retryResponse, others>>

\* storage.getUrl and the /ocr/page call of one page.
PageOcr(j, i) ==
  /\ pipe[j].pw[i].st = "ocr"
  /\ \E urlFound \in BOOLEAN, outs \in AttemptOutcomes(HttpMaxAttempts) :
       LET ok == urlFound /\ withRetry(outs, HttpMaxAttempts).ok
           pg == [pipe[j].pw[i] EXCEPT !.st = IF ok THEN "upsertOcr" ELSE "failed"]
       IN  pipe' = [pipe EXCEPT ![j] = AfterPage(@, i, pg)]
  /\ UNCHANGED <<pub, pages, pageOcr, leads, enrichments, scheduled, raster, retryResponse, others>>

PageUpsertOcr(j, i) ==
  /\ pipe[j].pw[i].st = "upsertOcr"
  /\ LET n == pipe[j].pgs[i].pageNumber
     IN  pageOcr' = [pageOcr EXCEPT ![n] = upsertPageOcr(@, [job |-> j, page |-> i])]
  /\ pipe' = [pipe EXCEPT ![j].pw[i].st = "segment"]
  /\ UNCHANGED <<pub, pages, leads, enrichments, scheduled, raster, retryResponse, others>>

\* The /segment/page call of one page; on success the segment workers start.
PageSegment(j, i) ==
  /\ pipe[j].pw[i].st = "segment"
  /\ \E outs \in AttemptOutcomes(HttpMaxAttempts),
        resp \in SegmentResponses(segmentBudget - SegmentsReturned(pipe, Len(pipe))) :
       LET ok == withRetry(outs, HttpMaxAttempts).ok
           segs == [k \in DOMAIN resp |-> NewSegment(resp[k].valid)]
           w == Min(Max(1, envConcurrency.segment), Len(segs))
           started == ClaimSegments([pipe[j].pw[i] EXCEPT !.st = "segs",
                                                          !.segs = segs], w)
           pg == IF ok THEN SettlePage(started)
                 ELSE [pipe[j].pw[i] EXCEPT !.st = "failed"]
       IN  pipe' = [pipe EXCEPT ![j] =
                      AfterPage([@ EXCEPT !.segTotal = @ + Len(pg.segs)], i, pg)]
  /\ UNCHANGED <<pub, pages, pageOcr, leads, enrichments, scheduled, raster, retryResponse, others>>

\* A segment worker's step has ended with the segment in state `st`; if the
\* mapper returned, the worker claims the next segment.
SegmentStep(job, i, k, st, enr) ==
  LET pg0 == [job.pw[i] EXCEPT !.segs[k].st = st, !.segs[k].enr = enr]
      pg1 == IF st \in SegmentReturned THEN ClaimSegment(pg0) ELSE pg0
  IN  AfterPage(job, i, SettlePage(pg1))

\* The /classify/lead call of one segment.
SegClassify(j, i, k) ==
  /\ pipe[j].pw[i].segs[k].st = "classify"
  /\ \E outs \in AttemptOutcomes(HttpMaxAttempts), isLead \in BOOLEAN :
       LET st == IF ~withRetry(outs, HttpMaxAttempts).ok THEN "rejected"
                 ELSE IF isLead THEN "createLead" ELSE "ret0"
       IN  pipe' = [pipe EXCEPT ![j] = SegmentStep(@, i, k, st, "none")]
  /\ UNCHANGED <<pub, pages, pageOcr, leads, enrichments, scheduled, raster, retryResponse, others>>

SegCreateLead(j, i, k) ==
  /\ pipe[j].pw[i].segs[k].st = "createLead"
  /\ leads' = createAiLead(leads, <<j, i, k>>, pipe[j].pgs[i].pageNumber)
  /\ pipe' = [pipe EXCEPT ![j] = SegmentStep(@, i, k, "upsertProc", "none")]
  /\ UNCHANGED <<pub, pages, pageOcr, enrichments, scheduled, raster, retryResponse, others>>

SegUpsertProcessing(j, i, k) ==
  /\ pipe[j].pw[i].segs[k].st = "upsertProc"
  /\ enrichments' =
       PutEnrichment(<<j, i, k>>,
         upsertLeadEnrichment(EnrichmentRows(<<j, i, k>>), "PROCESSING", "none"))
  /\ pipe' = [pipe EXCEPT ![j] = SegmentStep(@, i, k, "enrich", "none")]
  /\ UNCHANGED <<pub, pages, pageOcr, leads, scheduled, raster, retryResponse, others>>

\* A variant in which a failed /enrich/lead call rejects the segment mapper.
SegEnrich_Propagates(j, i, k) ==
  /\ pipe[j].pw[i].segs[k].st = "enrich"
  /\ \E outs \in AttemptOutcomes(HttpMaxAttempts) :
       LET ok == withRetry(outs, HttpMaxAttempts).ok
       IN  pipe' = [pipe EXCEPT ![j] =
                      IF ok THEN SegmentStep(@, i, k, "upsertFinal", "DONE")
                      ELSE SegmentStep(@, i, k, "rejected", "ERROR")]
  /\ UNCHANGED <<pub, pages, pageOcr, leads, enrichments, scheduled, raster, retryResponse, others>>

\* The /enrich/lead call: its failure is caught by the segment mapper.
SegEnrich(j, i, k) ==
  /\ pipe[j].pw[i].segs[k].st = "enrich"
  /\ \E outs \in AttemptOutcomes(HttpMaxAttempts) :
       LET enr == IF withRetry(outs, HttpMaxAttempts).ok THEN "DONE" ELSE "ERROR"
       IN  pipe' = [pipe EXCEPT ![j] = SegmentStep(@, i, k, "upsertFinal", enr)]
  /\ UNCHANGED <<pub, pages, pageOcr, leads, enrichments, scheduled, raster, retryResponse, others>>

SegUpsertFinal(j, i, k) ==
  /\ pipe[j].pw[i].segs[k].st = "upsertFinal"
  /\ LET enr == pipe[j].pw[i].segs[k].enr
     IN  /\ enrichments' =
              PutEnrichment(<<j, i, k>>,
                upsertLeadEnrichment(EnrichmentRows(<<j, i, k>>), enr,
                                     IF enr = "ERROR" THEN "message" ELSE "none"))
         /\ pipe' = [pipe EXCEPT ![j] = SegmentStep(@, i, k, "ret1", enr)]
  /\ UNCHANGED <<pub, pages, pageOcr, leads, scheduled, raster, retryResponse, others>>

\* A variant in which a failed page throws before finalizeLeadProcessing.
PipeFinalize_SkipOnFailure(j) ==
  /\ pipe[j].pc = "finalize"
  /\ LET job == pipe[j]
         failedPages == Cardinality({i \in DOMAIN job.pw : job.pw[i].st = "failed"})
     IN  /\ pub' = IF failedPages > 0 THEN pub ELSE finalizeLeadProcessing(pub, leads)
         /\ pipe' = [pipe EXCEPT ![j] =
                       [@ EXCEPT !.finalized = IF failedPages > 0 THEN @ ELSE @ + 1,
                                 !.failedPages = failedPages,
                                 !.pc = IF failedPages > 0 THEN "catch" ELSE "done",
                                 !.outcome = IF failedPages > 0 THEN @ ELSE "ok"]]
  /\ UNCHANGED <<pages, pageOcr, leads, enrichments, scheduled, raster, retryResponse, others>>

\* finalizeLeadProcessing commits; then the failed pages are counted and
\* either the result is returned or the aggregate error is thrown into the
\* catch block of runPublicationPipelineInternal.
PipeFinalize(j) ==
  /\ pipe[j].pc = "finalize"
  /\ pub.exists
  /\ pub' = finalizeLeadProcessing(pub, leads)
  /\ LET job == pipe[j]
         failedPages == Cardinality({i \in DOMAIN job.pw : job.pw[i].st = "failed"})
         created == IF Len(job.pw) = 0 THEN 0
                    ELSE LET RECURSIVE Sum(_)
                             Sum(n) == IF n = 0 THEN 0
                                       ELSE job.pw[n].count + Sum(n - 1)
                         IN  Sum(Len(job.pw))
     IN  pipe' = [pipe EXCEPT ![j] =
                    [@ EXCEPT !.finalized = @ + 1,
                              !.failedPages = failedPages,
                              !.createdLeadCount = created,
                              !.pc = IF failedPages > 0 THEN "catch" ELSE "done",
                              !.outcome = IF failedPages > 0 THEN @ ELSE "ok"]]
  /\ UNCHANGED <<pages, pageOcr, leads, enrichments, scheduled, raster, retryResponse, others>>

PipeCatch(j) ==
  /\ pipe[j].pc = "catch"
  /\ pub.exists
  /\ pub' = updatePublicationStatus(pub, "PROCESS_LEAD_ERROR")
  /\ pipe' = [pipe EXCEPT ![j].pc = "done", ![j].outcome = "error"]
  /\ UNCHANGED <<pages, pageOcr, leads, enrichments, scheduled, raster, retryResponse, others>>

\* ------------------------------------------------------- specifications
RasterNext ==
  \/ createPublicationUpload
  \/ RasterStart
  \/ \E j \in DOMAIN raster : RasterAnalyze(j)
  \/ \E j \in DOMAIN raster : RasterChunk(j)
  \/ \E j \in DOMAIN raster : \E i \in raster[j].inflight : RasterPageDone(j, i)
  \/ \E j \in DOMAIN raster : RasterStats(j)
  \/ \E j \in DOMAIN raster : RasterStatus(j)
  \/ \E j \in DOMAIN raster : RasterSchedule(j)
  \/ \E j \in DOMAIN raster : RasterCatch(j)
  \/ RetryPublicationProcessing

PipeNext ==
  \/ PipeStart
  \/ \E j \in DOMAIN pipe : PipeClear(j)
  \/ \E j \in DOMAIN pipe : PipeSetStatus(j)
  \/ \E j \in DOMAIN pipe : PipeQuery(j)
  \/ \E j \in DOMAIN pipe : \E i \in DOMAIN pipe[j].pw : PageOcr(j, i)
  \/ \E j \in DOMAIN pipe : \E i \in DOMAIN pipe[j].pw : PageUpsertOcr(j, i)
  \/ \E j \in DOMAIN pipe : \E i \in DOMAIN pipe[j].pw : PageSegment(j, i)
  \/ \E j \in DOMAIN pipe : \E i \in DOMAIN pipe[j].pw :
       \E k \in DOMAIN pipe[j].pw[i].segs : SegClassify(j, i, k)
  \/ \E j \in DOMAIN pipe : \E i \in DOMAIN pipe[j].pw :
       \E k \in DOMAIN pipe[j].pw[i].segs : SegCreateLead(j, i, k)
  \/ \E j \in DOMAIN pipe : \E i \in DOMAIN pipe[j].pw :
       \E k \in DOMAIN pipe[j].pw[i].segs : SegUpsertProcessing(j, i, k)
  \/ \E j \in DOMAIN pipe : \E i \in DOMAIN pipe[j].pw :
       \E k \in DOMAIN pipe[j].pw[i].segs : SegEnrich(j, i, k)
  \/ \E j \in DOMAIN pipe : \E i \in DOMAIN pipe[j].pw :
       \E k \in DOMAIN pipe[j].pw[i].segs : SegUpsertFinal(j, i, k)
  \/ \E j \in DOMAIN pipe : PipeFinalize(j)
  \/ \E j \in DOMAIN pipe : PipeCatch(j)
  \/ RetryPublicationProcessing

\* A publication whose rasterization has succeeded: pages 1..n recorded, the
\* statistics written, status LEAD_PROCESSING and the pipeline scheduled.
RasterizedPages(n) ==
  [i \in 1..n |-> [pageNumber |-> i, pageWidth |-> 1, pageHeight |-> 2, run |-> 1]]

ManualLead(n) ==
  [id |-> <<0, 0, n>>, pageNumber |-> 1, category |-> "MISSED_LEAD",
   isDeleted |-> FALSE]

PipeInit ==
  \E n \in 0..MaxPages, m \in 0..MaxManualLeads :
    /\ pub = [exists |-> TRUE, status |-> "LEAD_PROCESSING", pageCount |-> n,
              numberOfLeads |-> m, processPageAttempt |-> 0,
              maxPageWidth |-> IF n > 0 THEN 1 ELSE 0,
              maxPageHeight |-> IF n > 0 THEN 2 ELSE 0,
              errorCode |-> "unset", errorMessage |-> "unset"]
    /\ m > 0 => n > 0
    /\ pages = RasterizedPages(n)
    /\ pageOcr = [p \in 1..MaxPages |-> <<>>]
    /\ leads = {ManualLead(k) : k \in 1..m}
    /\ enrichments = <<>>
    /\ scheduled = SchedulePipeline(NothingScheduled)
    /\ raster = <<>>
    /\ pipe = <<>>
    /\ renderDims = {<<1, 2>>}
    /\ segmentBudget = MaxSegments
    /\ retryResponse = Unwatched
    /\ NoHelperCalls
    /\ DefaultConcurrency

\* ------------------------------------------------------ deletePublication
\* The cascade of deletePublication, one transaction: the pageOcr rows, for
\* every lead its first enrichment row and the lead, the pages, the
\* publication.  The caller is authorized.
deletePublication ==
  /\ pub.exists
  /\ pub' = NoPublication
  /\ pageOcr' = [n \in DOMAIN pageOcr |-> <<>>]
  /\ enrichments' =
       [id \in DOMAIN enrichments |->
          IF id \in {l.id : l \in leads} /\ enrichments[id] # <<>>
          THEN Tail(enrichments[id]) ELSE enrichments[id]]
  /\ leads' = {}
  /\ pages' = <<>>
  /\ UNCHANGED <<scheduled, raster, pipe, retryResponse, others>>

\* db.patch of a document that is gone throws.  In runPipeline the throw of
\* updatePublicationStatus or of finalizeLeadProcessing lands in the catch
\* block of runPublicationPipelineInternal; the throw of the catch block's
\* own updatePublicationStatus ends the action.
PipeSetStatusThrows(j) ==
  /\ pipe[j].pc = "setStatus"
  /\ ~pub.exists
  /\ pipe' = [pipe EXCEPT ![j].pc = "catch"]
  /\ UNCHANGED <<pub, pages, pageOcr, leads, enrichments, scheduled, raster, retryResponse, others>>

PipeFinalizeThrows(j) ==
  /\ pipe[j].pc = "finalize"
  /\ ~pub.exists
  /\ pipe' = [pipe EXCEPT ![j].pc = "catch"]
  /\ UNCHANGED <<pub, pages, pageOcr, leads, enrichments, scheduled, raster, retryResponse, others>>

PipeCatchThrows(j) ==
  /\ pipe[j].pc = "catch"
  /\ ~pub.exists
  /\ pipe' = [pipe EXCEPT ![j].pc = "done", ![j].outcome = "error"]
  /\ UNCHANGED <<pub, pages, pageOcr, leads, enrichments, scheduled, raster, retryResponse, others>>

DeleteNext ==
  \/ PipeNext
  \/ deletePublication
  \/ \E j \in DOMAIN pipe : PipeSetStatusThrows(j)
  \/ \E j \in DOMAIN pipe : PipeFinalizeThrows(j)
  \/ \E j \in DOMAIN pipe : PipeCatchThrows(j)

\* A rasterized publication with its lead extraction scheduled, against a
\* segment service that returns fewer segments.
SmallPipeInit ==
  \E n \in 0..MaxPages, m \in 0..MaxManualLeads :
    /\ pub = [exists |-> TRUE, status |-> "LEAD_PROCESSING", pageCount |-> n,
              numberOfLeads |-> m, processPageAttempt |-> 0,
              maxPageWidth |-> IF n > 0 THEN 1 ELSE 0,
              maxPageHeight |-> IF n > 0 THEN 2 ELSE 0,
              errorCode |-> "unset", errorMessage |-> "unset"]
    /\ m > 0 => n > 0
    /\ pages = RasterizedPages(n)
    /\ pageOcr = [p \in 1..MaxPages |-> <<>>]
    /\ leads = {ManualLead(k) : k \in 1..m}
    /\ enrichments = <<>>
    /\ scheduled = SchedulePipeline(NothingScheduled)
    /\ raster = <<>>
    /\ pipe = <<>>
    /\ renderDims = {<<1, 2>>}
    /\ segmentBudget = MaxSegmentsEndToEnd
    /\ retryResponse = Unwatched
    /\ NoHelperCalls
    /\ DefaultConcurrency

\* Steps of the invocations of runPublicationPipelineInternal that have not
\* returned or thrown yet.  The runtime runs a scheduled job and runs an
\* action up to its end; what a worker left behind by a rejected
\* mapWithConcurrency call does after its action has ended may or may not
\* happen.
RunningPipeStep ==
  \E j \in DOMAIN pipe :
     /\ pipe[j].pc # "done"
     /\ \/ PipeClear(j)
        \/ PipeSetStatus(j)
        \/ PipeQuery(j)
        \/ \E i \in DOMAIN pipe[j].pw : PageOcr(j, i)
        \/ \E i \in DOMAIN pipe[j].pw : PageUpsertOcr(j, i)
        \/ \E i \in DOMAIN pipe[j].pw : PageSegment(j, i)
        \/ \E i \in DOMAIN pipe[j].pw : \E k \in DOMAIN pipe[j].pw[i].segs :
             \/ SegClassify(j, i, k)
             \/ SegCreateLead(j, i, k)
             \/ SegUpsertProcessing(j, i, k)
             \/ SegEnrich(j, i, k)
             \/ SegUpsertFinal(j, i, k)
        \/ PipeFinalize(j)
        \/ PipeCatch(j)

PipeFairness == WF_vars(PipeStart) /\ WF_vars(RunningPipeStep)

\* Lead extraction in which every external call returns and every running
\* action goes on to its end.
SpecPipeFair == SmallPipeInit /\ [][PipeNext]_vars /\ PipeFairness

\* ------------------------------------------------------- createMissedLead
MissedLeads(rows) == {l \in rows : l.category = "MISSED_LEAD"}

\* A variant that leaves the status of a publication being processed.
missedLeadPatch_KeepsProcessingStatus(p, rows) ==
  [p EXCEPT !.numberOfLeads = Cardinality(ActiveLeads(rows)),
            !.status = IF @ \in {"PAGE_PROCESSING", "LEAD_PROCESSING"} THEN @
                       ELSE "LEADS_FOUND"]

\* The patch createMissedLead ends with, given the leads after its insert.
missedLeadPatch(p, rows) ==
  [p EXCEPT !.numberOfLeads = Cardinality(ActiveLeads(rows)),
            !.status = "LEADS_FOUND"]

\* createMissedLead by an authenticated user with a valid box: one
\* transaction that inserts the lead, counts the active leads and patches
\* the publication.  A call that throws changes nothing.
createMissedLead ==
  /\ pub.exists
  /\ Cardinality(MissedLeads(leads)) < MaxMissedLeads
  /\ \E pageNumber \in 1..MaxPages :
       /\ ~(pageNumber < 1 \/ pageNumber > pub.pageCount)
       /\ LET id == <<0, 0, Cardinality(MissedLeads(leads)) + 1>>
              rows == leads \cup {[id |-> id, pageNumber |-> pageNumber,
                                    category |-> "MISSED_LEAD",
                                    isDeleted |-> FALSE]}
          IN  /\ leads' = rows
              /\ pub' = missedLeadPatch(pub, rows)
  /\ UNCHANGED <<pages, pageOcr, enrichments, scheduled, raster, pipe, retryResponse, others>>

ManualNext == PipeNext \/ createMissedLead

\* Lead extraction with manual leads created at any moment.
SpecManual == SmallPipeInit /\ [][ManualNext]_vars

\* Lead extraction with the publication deleted at any moment.
SpecDelete == SmallPipeInit /\ [][DeleteNext]_vars

\* Lead extraction of a publication of MaxPages pages with the environment
\* setting PIPELINE_PAGE_CONCURRENCY to one page at a time.  The rasterization
\* of the publication has used the retries of the behaviour.
SerialInit ==
  /\ pub = [exists |-> TRUE, status |-> "LEAD_PROCESSING",
            pageCount |-> MaxPages, numberOfLeads |-> 0,
            processPageAttempt |-> MaxRetries,
            maxPageWidth |-> 1, maxPageHeight |-> 2,
            errorCode |-> "unset", errorMessage |-> "unset"]
  /\ pages = RasterizedPages(MaxPages)
  /\ pageOcr = [p \in 1..MaxPages |-> <<>>]
  /\ leads = {}
  /\ enrichments = <<>>
  /\ scheduled = SchedulePipeline(NothingScheduled)
  /\ raster = <<>>
  /\ pipe = <<>>
  /\ renderDims = {<<1, 2>>}
  /\ segmentBudget = MaxSegmentsSerial
  /\ retryResponse = Unwatched
  /\ NoHelperCalls
  /\ envConcurrency = [page |-> SerialPageConcurrency,
                    segment |-> SegmentConcurrency]

SpecSerial == SerialInit /\ [][PipeNext]_vars

\* Upload, rasterization and retry from PROCESS_PAGE_ERROR.
SpecRaster == RasterInit /\ [][RasterNext]_vars

\* Lead extraction and retry from PROCESS_LEAD_ERROR.
SpecPipe == PipeInit /\ [][PipeNext]_vars

\* The whole pipeline of one publication.
Next == RasterNext \/ PipeNext

\* The whole pipeline with the caller of retryPublicationProcessing watched,
\* against a segment service that returns one segment.
RetryInit ==
  /\ NothingUploaded
  /\ renderDims = {<<1, 2>>}
  /\ segmentBudget = 1
  /\ retryResponse = [Unwatched EXCEPT !.watched = TRUE]
  /\ NoHelperCalls
  /\ DefaultConcurrency

SpecRetry == RetryInit /\ [][Next]_vars

\* Steps of the invocations of enqueuePublicationProcessing that have not
\* returned or thrown yet.
RunningRasterStep ==
  \E j \in DOMAIN raster :
     /\ raster[j].pc # "done"
     /\ \/ RasterAnalyze(j)
        \/ RasterChunk(j)
        \/ \E i \in raster[j].inflight : RasterPageDone(j, i)
        \/ RasterStats(j)
        \/ RasterStatus(j)
        \/ RasterSchedule(j)
        \/ RasterCatch(j)

RasterFairness == WF_vars(RasterStart) /\ WF_vars(RunningRasterStep)

\* The whole pipeline against a segment service that returns one segment.
FairInit ==
  /\ NothingUploaded
  /\ renderDims = {<<1, 2>>}
  /\ segmentBudget = MaxSegmentsFair
  /\ retryResponse = Unwatched
  /\ NoHelperCalls
  /\ DefaultConcurrency

\* The whole pipeline in which the scheduler starts every job, every
\* external call and mutation returns or fails, and every running action
\* goes on to its end.  Uploads and retries are the users' to make or not.
SpecFair == FairInit /\ [][Next]_vars /\ RasterFairness /\ PipeFairness

Spec == Init /\ [][Next]_vars

\* ------------------------------------------- mapWithConcurrency, alone
\* One call of mapWithConcurrency with a mapper that has no effect but its
\* result.  Indexes are 1-based here, 0-based in the source.
ItemValues == {1, 2}
ItemLists == UNION {[1..n -> ItemValues] : n \in 0..MaxItems}

MapperResult(item, index) == [of |-> item, at |-> index]

\* A slot of new Array(items.length) that was not written.
EmptySlot == [of |-> 0, at |-> 0]

\* A variant that fills the result array in completion order.
StoreResult_CompletionOrder(results, current, value) ==
  LET free == {i \in DOMAIN results : results[i] = EmptySlot}
      first == CHOOSE i \in free : \A o \in free : i <= o
  IN  [results EXCEPT ![first] = value]

\* results[current] = await mapper(...)
StoreResult(results, current, value) == [results EXCEPT ![current] = value]

\* A worker at the head of its loop: it takes the next index and calls the
\* mapper, or leaves the loop.
ClaimItem(call, w) ==
  IF call.index <= Len(call.items)
  THEN [call EXCEPT !.workers[w] = [st |-> "awaiting", current |-> call.index],
                    !.index = @ + 1,
                    !.invoked[call.index] = @ + 1]
  ELSE [call EXCEPT !.workers[w] = [st |-> "returned", current |-> 0]]

RECURSIVE StartWorkers(_, _)
\* Array.from runs each worker up to its first await, one after the other.
StartWorkers(call, w) ==
  IF w > Len(call.workers) THEN call
  ELSE StartWorkers(ClaimItem(call, w), w + 1)

\* await Promise.all(workers); return results
SettleCall(call) ==
  IF call.pc # "pending" THEN call
  ELSE IF \E w \in DOMAIN call.workers : call.workers[w].st = "rejected"
  THEN [call EXCEPT !.pc = "rejected"]
  ELSE IF \A w \in DOMAIN call.workers : call.workers[w].st = "returned"
  THEN [call EXCEPT !.pc = "resolved", !.returned = call.results]
  ELSE call

\* A variant that starts one worker per item.
WorkerCount_OnePerItem(concurrency, n) == n

\* The workers Array.from creates: min(max(1, concurrency), items.length).
WorkerCount(concurrency, n) ==
  LET limit == Max(1, concurrency)
  IN  Min(limit, n)

mapWithConcurrency ==
  /\ mwc.pc = "idle"
  /\ \E items \in ItemLists, concurrency \in -1..MaxConcurrency :
       LET n == Len(items)
           call == [pc |-> "pending", items |-> items, concurrency |-> concurrency,
                    results |-> [i \in 1..n |-> EmptySlot], index |-> 1,
                    workers |-> [w \in 1..WorkerCount(concurrency, n) |->
                                   [st |-> "created", current |-> 0]],
                    invoked |-> [i \in 1..n |-> 0], completed |-> <<>>,
                    returned |-> <<>>]
       IN  mwc' = SettleCall(StartWorkers(call, 1))
  /\ UNCHANGED <<program, cwr, upsertCalls, chunkLoop, backoff, geometry, leadCall>>

\* The mapper call a worker awaits resolves: the result is stored and the
\* worker goes round its loop.
MapperResolves(w) ==
  /\ mwc.pc # "idle"
  /\ w \in DOMAIN mwc.workers
  /\ mwc.workers[w].st = "awaiting"
  /\ LET current == mwc.workers[w].current
         value == MapperResult(mwc.items[current], current)
         stored == [mwc EXCEPT !.results = StoreResult(@, current, value),
                               !.completed = Append(@, current)]
     IN  mwc' = SettleCall(ClaimItem(stored, w))
  /\ UNCHANGED <<program, cwr, upsertCalls, chunkLoop, backoff, geometry, leadCall>>

\* The mapper call a worker awaits rejects: so does the worker.
MapperRejects(w) ==
  /\ mwc.pc # "idle"
  /\ w \in DOMAIN mwc.workers
  /\ mwc.workers[w].st = "awaiting"
  /\ mwc' = SettleCall([mwc EXCEPT !.workers[w].st = "rejected"])
  /\ UNCHANGED <<program, cwr, upsertCalls, chunkLoop, backoff, geometry, leadCall>>

MapNext ==
  \/ mapWithConcurrency
  \/ \E w \in 1..MaxConcurrency : MapperResolves(w)
  \/ \E w \in 1..MaxConcurrency : MapperRejects(w)

SpecMap == Init /\ [][MapNext]_vars

\* ------------------------------------------------------ withRetry, alone
\* One call of the retry helper: the outcome of each attempt and what each
\* attempt would return or throw are drawn, then the helper runs.
Payloads == {1, 2}

callWithRetry ==
  /\ cwr.pc = "idle"
  /\ \E maxAttempts \in 1..MaxCallAttempts :
       \E outs \in AttemptOutcomes(maxAttempts),
          payloads \in [1..maxAttempts -> Payloads] :
         LET r == withRetry(outs, maxAttempts)
         IN  cwr' = [pc |-> IF r.returned # 0 THEN "returned" ELSE "thrown",
                     maxAttempts |-> maxAttempts, outs |-> outs,
                     payloads |-> payloads, made |-> r.made,
                     response |-> IF r.returned # 0 THEN payloads[r.returned] ELSE 0,
                     error |-> IF r.thrown # 0 THEN payloads[r.thrown] ELSE 0,
                     from |-> IF r.returned # 0 THEN r.returned ELSE r.thrown,
                     delays |-> r.delays, sleeps |-> r.sleeps,
                     sleptAfter |-> r.sleptAfter]
  /\ UNCHANGED <<program, mwc, upsertCalls, chunkLoop, backoff, geometry, leadCall>>

\* The caller is done with the outcome.
CallerReturns ==
  /\ cwr.pc # "idle"
  /\ cwr' = NoRetryCall
  /\ UNCHANGED <<program, mwc, upsertCalls, chunkLoop, backoff, geometry, leadCall>>

CallNext == callWithRetry \/ CallerReturns

SpecCall == Init /\ [][CallNext]_vars

\* ================================================================ claims
\* Invocations whose local state is still held.
LiveRaster == {j \in DOMAIN raster : ~raster[j].retired}
LivePipe == {j \in DOMAIN pipe : ~pipe[j].retired}

\* publicationPages rows created by rasterization run j.
PagesOfRun(j) == {a \in DOMAIN pages : pages[a].run = j}

\* ---------------------------------------------------------------- C6
\* C6: after a rasterization run has completed successfully, the Page
\* records of the publication are exactly one record per page number
\* 1..pageCount and Publication.pageCount equals their number.
C6_PagesContiguousUnique ==
  \A j \in LiveRaster :
    raster[j].outcome = "ok" =>
      /\ pub.pageCount = Len(pages)
      /\ \A a \in DOMAIN pages : pages[a].pageNumber \in 1..pub.pageCount
      /\ \A n \in 1..pub.pageCount :
           Cardinality({a \in DOMAIN pages : pages[a].pageNumber = n}) = 1

\* ---------------------------------------------------------------- C7
\* C7: a retry from PROCESS_PAGE_ERROR re-runs rasterization from scratch:
\* no Page record of an earlier run is still there when a later run creates
\* a Page record (rows are in creation order), and no PageOcr row is left.
C7_RetryDiscardsPages ==
  \A a, b \in DOMAIN pages :
    (a < b /\ pages[b].run > 1) =>
      /\ pages[a].run >= pages[b].run
      /\ \A n \in DOMAIN pageOcr : pageOcr[n] = <<>>

\* ---------------------------------------------------------------- C8
\* C8: whenever a rasterization job has ended, either it created a Page
\* record for every page of the document and the status is LEAD_PROCESSING,
\* or the status is PROCESS_PAGE_ERROR, an error was raised and lead
\* extraction was not scheduled (until a retry is requested).
C8_AllPagesOrError ==
  \A j \in LiveRaster :
    raster[j].pc = "done" =>
      \/ /\ raster[j].outcome = "ok"
         /\ pub.status = "LEAD_PROCESSING"
         /\ \A n \in 1..raster[j].pageCount :
              \E a \in PagesOfRun(j) : pages[a].pageNumber = n
      \/ /\ raster[j].outcome = "error"
         /\ raster[j].scheduledPipeline = 0
         /\ scheduled.pipelineJobs = 0
         /\ scheduled.rasterJobs = 0 => pub.status = "PROCESS_PAGE_ERROR"

\* ---------------------------------------------------------------- C9
\* C9: once a chunk has returned a number of results different from its
\* window size, the run issues no further /pdf/process request (neither for
\* that window nor for a later one), creates no Page record, and ends with
\* an error and status PROCESS_PAGE_ERROR.
C9_ChunkMismatchIsFatal ==
  \A j \in LiveRaster :
    raster[j].mismatchAt > 0 =>
      /\ raster[j].pc \in {"catch", "done"}
      /\ Len(raster[j].calls) = raster[j].mismatchAt
      /\ raster[j].calls[raster[j].mismatchAt].startPage = raster[j].startPage
      /\ PagesOfRun(j) = {}
      /\ raster[j].inflight = {}
      /\ raster[j].pc = "done" =>
           /\ raster[j].outcome = "error"
           /\ raster[j].scheduledPipeline = 0
           /\ scheduled.rasterJobs = 0 => pub.status = "PROCESS_PAGE_ERROR"

\* A mismatch in the second chunk, after the first chunk's row was accepted.
C9_Witness ==
  \E j \in LiveRaster :
    /\ raster[j].mismatchAt > 0
    /\ raster[j].pc = "done"
    /\ raster[j].results # <<>>
    /\ pub.status = "PROCESS_PAGE_ERROR"

\* ---------------------------------------------------------------- C10
\* C10: the status LEAD_PROCESSING is written and lead extraction is
\* scheduled, exactly once, only after every Page record of the run has been
\* created and pageCount and the maximum page dimensions have been written.
StatsWritten(j) ==
  LET rows == raster[j].sortedResults
  IN  /\ Len(rows) = raster[j].pageCount
      /\ Cardinality(PagesOfRun(j)) = Len(rows)
      /\ \A i \in DOMAIN rows :
           \E a \in PagesOfRun(j) :
              /\ pages[a].pageNumber = rows[i].page
              /\ pages[a].pageWidth = rows[i].width
              /\ pages[a].pageHeight = rows[i].height
      /\ pub.pageCount = Len(rows)
      /\ \A i \in DOMAIN rows :
           /\ pub.maxPageWidth >= rows[i].width
           /\ pub.maxPageHeight >= rows[i].height
      /\ rows # <<>> =>
           /\ \E i \in DOMAIN rows : pub.maxPageWidth = rows[i].width
           /\ \E i \in DOMAIN rows : pub.maxPageHeight = rows[i].height

C10_ScheduleAfterPagesAndStats ==
  /\ \A j \in LiveRaster :
       /\ raster[j].scheduledPipeline <= 1
       /\ raster[j].pc = "status" => StatsWritten(j)
       /\ raster[j].pc = "schedule" =>
            StatsWritten(j) /\ pub.status = "LEAD_PROCESSING"
       /\ raster[j].outcome = "ok" =>
            /\ StatsWritten(j)
            /\ pub.status = "LEAD_PROCESSING"
            /\ raster[j].scheduledPipeline = 1
       /\ raster[j].outcome # "ok" => raster[j].scheduledPipeline = 0
  /\ scheduled.pipelineJobs > 0 =>
       \E j \in LiveRaster : raster[j].outcome = "ok"
  /\ pub.status = "LEAD_PROCESSING" =>
       \E j \in LiveRaster : raster[j].pc \in {"schedule", "done"}

\* A two-page document whose pages differ in width and in height.
C10_Witness ==
  \E j \in LiveRaster :
    /\ raster[j].outcome = "ok"
    /\ scheduled.pipelineJobs = 1
    /\ Len(pages) = 2
    /\ pub.maxPageWidth = 2
    /\ pub.maxPageHeight = 2

\* ---------------------------------------------------------------- C1
\* The chain of the status state machine and the two retry edges; the first
\* edge is the creation of the publication by an upload.
ChainEdges ==
  {<<"NONE", "PAGE_PROCESSING">>,
   <<"PAGE_PROCESSING", "PROCESS_PAGE_ERROR">>,
   <<"PAGE_PROCESSING", "LEAD_PROCESSING">>,
   <<"LEAD_PROCESSING", "PROCESS_LEAD_ERROR">>,
   <<"LEAD_PROCESSING", "NO_LEADS_FOUND">>,
   <<"LEAD_PROCESSING", "LEADS_FOUND">>,
   <<"PROCESS_PAGE_ERROR", "PAGE_PROCESSING">>,
   <<"PROCESS_LEAD_ERROR", "LEAD_PROCESSING">>}

\* The aggregate error of a run is recorded after its finalization.
LateErrorEdges ==
  {<<"NO_LEADS_FOUND", "PROCESS_LEAD_ERROR">>,
   <<"LEADS_FOUND", "PROCESS_LEAD_ERROR">>}

StatusStep(edges) ==
  /\ pub'.status # "CONFIRMED"
  /\ pub'.status # pub.status => <<pub.status, pub'.status>> \in edges

\* C1 (as stated): every status change made by upload, rasterization, lead
\* extraction or retry follows an edge of the chain or a retry edge, and
\* CONFIRMED is never written.
C1_ChainOnly == [][StatusStep(ChainEdges)]_vars

\* C1 (amended): every status change follows an edge of the chain, a retry
\* edge, or one of NO_LEADS_FOUND -> PROCESS_LEAD_ERROR and LEADS_FOUND ->
\* PROCESS_LEAD_ERROR; CONFIRMED is never written.
C1_ChainWithLateError == [][StatusStep(ChainEdges \cup LateErrorEdges)]_vars

\* A publication that went through a rasterization retry and then ended in
\* PROCESS_LEAD_ERROR after its run had found leads.
C1_Witness ==
  /\ pub.status = "PROCESS_LEAD_ERROR"
  /\ pub.processPageAttempt = 1
  /\ pub.numberOfLeads > 0

\* ---------------------------------------------------------------- C2
\* The latest lead-extraction run, when no earlier run has workers left.
LatestRun(j) ==
  /\ j = Len(pipe)
  /\ \A e \in 1..(j - 1) : pipe[e].pw = <<>>

\* C2: whenever the lead-extraction run has finished (returned or raised)
\* and no other operation creates or deletes leads, numberOfLeads equals
\* the number of Lead rows with isDeleted = FALSE.
C2_NumberOfLeadsIsActiveCount ==
  \A j \in DOMAIN pipe :
    (LatestRun(j) /\ pipe[j].pc = "done") =>
      pub.numberOfLeads = Cardinality(ActiveLeads(leads))

\* ---------------------------------------------------------------- C3
FailedPagesOf(job) == {i \in DOMAIN job.pw : job.pw[i].st = "failed"}

\* Page i of run j was processed to completion: every segment returned, and
\* every lead it created is recorded, not deleted, with a settled enrichment.
PageCompleted(j, i) ==
  LET pg == pipe[j].pw[i]
  IN  /\ pg.sidx > Len(pg.segs)
      /\ \A k \in DOMAIN pg.segs :
           /\ pg.segs[k].st \in SegmentReturned
           /\ pg.segs[k].st = "ret1" =>
                /\ \E l \in ActiveLeads(leads) :
                      l.id = <<j, i, k>> /\ l.pageNumber = pipe[j].pgs[i].pageNumber
                /\ <<j, i, k>> \in DOMAIN enrichments
                /\ Len(enrichments[<<j, i, k>>]) = 1
                /\ enrichments[<<j, i, k>>][1].status \in {"DONE", "ERROR"}

\* C3: when a page fails during lead extraction, every other page is still
\* processed to completion with its leads and enrichments persisted and not
\* deleted; the run raises the aggregate error counting the failed pages and
\* the publication is in PROCESS_LEAD_ERROR (until a retry is requested).
C3_PageFailureIsolated ==
  \A j \in DOMAIN pipe :
    j = Len(pipe) =>
      LET job == pipe[j]
      IN  /\ \A i \in DOMAIN job.pw : job.pw[i].st = "ok" => PageCompleted(j, i)
          /\ job.pc \in {"finalize", "catch", "done"} =>
               /\ Len(job.pw) = Len(job.pgs)
               /\ \A i \in DOMAIN job.pw : job.pw[i].st \in PageEnded
          /\ job.pc \in {"catch", "done"} =>
               /\ job.failedPages = Cardinality(FailedPagesOf(job))
               /\ job.pc = "done" =>
                    (job.outcome = "error" <=> FailedPagesOf(job) # {})
          /\ (job.pc = "done" /\ job.outcome = "error"
                /\ scheduled.pipelineJobs = 0) =>
               pub.status = "PROCESS_LEAD_ERROR"

\* One of two pages failed; the other produced a lead.
C3_Witness ==
  \E j \in DOMAIN pipe :
    /\ j = Len(pipe)
    /\ pipe[j].pc = "done"
    /\ Len(pipe[j].pgs) = 2
    /\ pipe[j].failedPages = 1
    /\ \E i \in DOMAIN pipe[j].pw :
         pipe[j].pw[i].st = "ok" /\ pipe[j].pw[i].count = 1
    /\ pub.status = "PROCESS_LEAD_ERROR"

\* ---------------------------------------------------------------- C4
\* C4: finalization runs exactly once per lead-extraction run, after all
\* page workers have returned and before the aggregate error is raised; a
\* page failure never skips it, and PROCESS_LEAD_ERROR is written only
\* after it.
C4_FinalizeExactlyOnce ==
  /\ \A j \in DOMAIN pipe :
       /\ pipe[j].finalized <= 1
       /\ pipe[j].pc \in {"clear", "setStatus", "query", "pages", "finalize"} =>
            pipe[j].finalized = 0
       /\ pipe[j].pc \in {"catch", "done"} => pipe[j].finalized = 1
       /\ pipe[j].outcome # "running" => pipe[j].finalized = 1
       /\ pipe[j].pc = "finalize" =>
            \A i \in DOMAIN pipe[j].pw : pipe[j].pw[i].st \in PageEnded
       /\ pipe[j].pc = "catch" =>
            /\ pub.status \in {"LEADS_FOUND", "NO_LEADS_FOUND"}
            /\ FailedPagesOf(pipe[j]) # {}
  /\ pub.status = "PROCESS_LEAD_ERROR" =>
       \E j \in DOMAIN pipe : pipe[j].outcome = "error" /\ pipe[j].finalized = 1

\* A run with a failed page that has finalized and then raised.
C4_Witness ==
  \E j \in DOMAIN pipe :
    /\ pipe[j].outcome = "error"
    /\ pipe[j].finalized = 1
    /\ pub.status = "PROCESS_LEAD_ERROR"
    /\ pub.numberOfLeads = Cardinality(ActiveLeads(leads))
    /\ pub.numberOfLeads > 0

\* ---------------------------------------------------------------- C5
EnrichmentStatus(rows, id) ==
  IF id \in DOMAIN rows /\ rows[id] # <<>> THEN rows[id][1].status ELSE "none"

\* The step recorded an enrichment failure for lead id.
RecordsEnrichmentError(id) ==
  /\ EnrichmentStatus(enrichments', id) = "ERROR"
  /\ EnrichmentStatus(enrichments, id) # "ERROR"

C5_State ==
  \A j \in DOMAIN pipe :
    j = Len(pipe) =>
      \A i \in DOMAIN pipe[j].pw :
        LET pg == pipe[j].pw[i]
        IN  /\ \A k \in DOMAIN pg.segs :
                 pg.segs[k].enr = "ERROR" =>
                   /\ pg.segs[k].st \in {"upsertFinal", "ret1"}
                   /\ \E l \in ActiveLeads(leads) : l.id = <<j, i, k>>
                   /\ pg.segs[k].st = "ret1" =>
                        /\ EnrichmentStatus(enrichments, <<j, i, k>>) = "ERROR"
                        /\ enrichments[<<j, i, k>>][1].errorMessage = "message"
            /\ pg.st = "ok" =>
                 pg.count = Cardinality({k \in DOMAIN pg.segs :
                                           pg.segs[k].enr \in {"DONE", "ERROR"}})
            /\ pg.st = "failed" =>
                 \/ pg.segs = <<>>
                 \/ \E k \in DOMAIN pg.segs :
                       pg.segs[k].st = "rejected" /\ pg.segs[k].enr = "none"

C5_Step ==
  \A id \in DOMAIN enrichments' :
    RecordsEnrichmentError(id) =>
      /\ leads' = leads
      /\ \A other \in DOMAIN enrichments :
           other # id => enrichments'[other] = enrichments[other]

\* C5: a failed enrichment call ends the lead's LeadEnrichment in ERROR with
\* the message, leaves the Lead row and every other lead's enrichment
\* unchanged, still counts the segment as one created lead and leaves the
\* page ok: the failure does not leave the segment worker.
C5_EnrichmentFailureIsolated == []C5_State /\ [][C5_Step]_vars

\* A page reported ok with two leads: one enrichment failed, one succeeded.
C5_Witness ==
  \E j \in DOMAIN pipe : \E i \in DOMAIN pipe[j].pw :
    /\ j = Len(pipe)
    /\ pipe[j].pw[i].st = "ok"
    /\ pipe[j].pw[i].count = 2
    /\ \E k, m \in DOMAIN pipe[j].pw[i].segs :
         /\ EnrichmentStatus(enrichments, <<j, i, k>>) = "ERROR"
         /\ EnrichmentStatus(enrichments, <<j, i, m>>) = "DONE"

\* ---------------------------------------------------------------- C11
RetryableStatus == {"PROCESS_PAGE_ERROR", "PROCESS_LEAD_ERROR"}

\* A watched call of retryPublicationProcessing returned in this step.
RetryReturned == retryResponse.watched /\ retryResponse' # retryResponse

C11_Step ==
  (RetryReturned /\ pub.status \notin RetryableStatus) =>
     /\ pub' = pub
     /\ scheduled' = scheduled
     /\ raster' = raster /\ pipe' = pipe
     /\ pages' = pages /\ leads' = leads
     /\ retryResponse'.called
     /\ ~retryResponse'.queued
     /\ retryResponse'.status = pub.status

\* C11: retryPublicationProcessing on a publication whose status is neither
\* PROCESS_PAGE_ERROR nor PROCESS_LEAD_ERROR changes no field of the
\* publication, schedules no job and returns queued = false with the
\* current status.
C11_RetryNoOp == [][C11_Step]_vars

\* A retry was refused on a publication in LEADS_FOUND.
C11_Witness ==
  /\ retryResponse.called
  /\ ~retryResponse.queued
  /\ retryResponse.status = "LEADS_FOUND"
  /\ pub.status = "LEADS_FOUND"
  /\ scheduled = NothingScheduled

\* ---------------------------------------------------------------- C12
LeadIds(rows) == {l.id : l \in rows}

\* Run j has not got past its preamble: no page is in work and no lead of
\* the run exists.
C12_State ==
  /\ Cardinality(LeadIds(leads)) = Cardinality(leads)
  /\ \A j \in DOMAIN pipe :
       pipe[j].pc \in {"clear", "setStatus", "query"} =>
         /\ pipe[j].pw = <<>>
         /\ \A l \in leads : l.id[1] # j

C12_Step ==
  /\ LeadIds(leads) \subseteq LeadIds(leads')
  /\ \A l \in leads : l.category = "MISSED_LEAD" => l \in leads'
  /\ \A j \in DOMAIN pipe :
       (pipe[j].pc = "clear" /\ pipe'[j].pc # "clear") =>
         \A l \in leads :
           l.category = "AI_LEAD" =>
             /\ [l EXCEPT !.isDeleted = TRUE] \in leads'
             /\ \A n \in leads' : n.id = l.id => n.isDeleted

\* C12: every lead-extraction run, first or retried, sets isDeleted on all
\* AI leads the publication had before it, before a page is processed and
\* before a lead of the run is created; no Lead row is ever removed and no
\* MISSED_LEAD row is ever changed.
C12_ClearBeforePages == []C12_State /\ [][C12_Step]_vars

\* A retried run has cleared the lead of the first run and kept the manual
\* lead.
C12_Witness ==
  /\ Len(pipe) = 2
  /\ pipe[2].pc = "setStatus"
  /\ \E l \in leads : l.category = "AI_LEAD" /\ l.id[1] = 1 /\ l.isDeleted
  /\ \A l \in leads : l.category = "AI_LEAD" => l.isDeleted
  /\ \E l \in leads : l.category = "MISSED_LEAD" /\ ~l.isDeleted

\* ---------------------------------------------------------------- C13
StatusForLeads(rows) ==
  IF ActiveLeads(rows) # {} THEN "LEADS_FOUND" ELSE "NO_LEADS_FOUND"

\* The ended runs: the status of a run without failed page tells whether
\* the publication has an active lead, that of a run that raised is
\* PROCESS_LEAD_ERROR until a retry is requested.
C13_State ==
  \A j \in DOMAIN pipe :
    (j = Len(pipe) /\ pipe[j].pc = "done") =>
      /\ pipe[j].outcome \in {"ok", "error"}
      /\ pipe[j].outcome = "ok" <=> FailedPagesOf(pipe[j]) = {}
      /\ (pipe[j].outcome = "ok" /\ LatestRun(j)) =>
            pub.status = StatusForLeads(leads)
      /\ (pipe[j].outcome = "error" /\ scheduled.pipelineJobs = 0) =>
            pub.status = "PROCESS_LEAD_ERROR"

\* The step that ends a run.
C13_Step ==
  \A j \in DOMAIN pipe :
    (pipe[j].pc # "done" /\ pipe'[j].pc = "done") =>
      IF pipe'[j].outcome = "ok"
      THEN pub'.status = StatusForLeads(leads')
      ELSE pub'.status = "PROCESS_LEAD_ERROR"

\* C13: a lead-extraction run in which no page failed ends with status
\* LEADS_FOUND if the publication has a lead with isDeleted = FALSE (manual
\* leads included) and with NO_LEADS_FOUND otherwise; a run that raises ends
\* with status PROCESS_LEAD_ERROR.
C13_EndStatus == []C13_State /\ [][C13_Step]_vars

\* A run that created no lead ended in LEADS_FOUND on the manual lead alone.
C13_Witness ==
  \E j \in DOMAIN pipe :
    /\ pipe[j].pc = "done"
    /\ pipe[j].outcome = "ok"
    /\ pipe[j].pgs # <<>>
    /\ pub.status = "LEADS_FOUND"
    /\ \A l \in ActiveLeads(leads) : l.category = "MISSED_LEAD"

\* ---------------------------------------------------------------- C14
\* C14: when no mapper call rejects, mapWithConcurrency returns an array
\* with result[i] = the mapper's result for items[i] for each i, whatever
\* the concurrency and the order in which the calls complete, and the
\* mapper is invoked once per index, Len(items) times in all.
C14_OrderAndCount ==
  /\ mwc.pc # "idle" =>
       \A i \in DOMAIN mwc.items : mwc.invoked[i] <= 1
  /\ mwc.pc = "resolved" =>
       /\ Len(mwc.returned) = Len(mwc.items)
       /\ \A i \in DOMAIN mwc.items :
            /\ mwc.returned[i] = MapperResult(mwc.items[i], i)
            /\ mwc.invoked[i] = 1
       /\ Len(mwc.completed) = Len(mwc.items)

\* Three items mapped by two workers, the second call completing first.
C14_Witness ==
  /\ mwc.pc = "resolved"
  /\ mwc.items = <<1, 2, 1>>
  /\ mwc.concurrency = 2
  /\ mwc.completed = <<2, 3, 1>>

\* ---------------------------------------------------------------- C15
\* The step a segment worker in state st can take.
SegmentCanStep(j, i, k) ==
  LET st == pipe[j].pw[i].segs[k].st
  IN  /\ st = "classify" => ENABLED SegClassify(j, i, k)
      /\ st = "createLead" => ENABLED SegCreateLead(j, i, k)
      /\ st = "upsertProc" => ENABLED SegUpsertProcessing(j, i, k)
      /\ st = "enrich" => ENABLED SegEnrich(j, i, k)
      /\ st = "upsertFinal" => ENABLED SegUpsertFinal(j, i, k)

C15_State ==
  \A j \in DOMAIN pipe : \A i \in DOMAIN pipe[j].pw :
    LET pg == pipe[j].pw[i]
        rejected == {k \in DOMAIN pg.segs : pg.segs[k].st = "rejected"}
    IN  /\ rejected # {} => pg.st = "failed"
        /\ (pg.st = "failed" /\ pg.segs # <<>>) => rejected # {}
        /\ \A k \in DOMAIN pg.segs : SegmentCanStep(j, i, k)

\* A worker whose mapper call returns takes the next segment, if one is
\* left, whatever became of the page.
C15_Step ==
  \A j \in DOMAIN pipe : \A i \in DOMAIN pipe[j].pw :
    \A k \in DOMAIN pipe[j].pw[i].segs :
      LET pg == pipe[j].pw[i]
          after == pipe'[j].pw[i]
      IN  (/\ pg.segs[k].st \in SegmentRunning
           /\ after.segs # <<>>
           /\ after.segs[k].st \in SegmentReturned
           /\ pg.sidx <= Len(pg.segs)) =>
            /\ after.sidx = pg.sidx + 1
            /\ after.segs[pg.sidx].st # "idle"

\* C15: the first rejected mapper call fails the aggregate operation at
\* once, with sibling workers still running; the siblings are not
\* cancelled: each can take its next step, and takes the remaining items,
\* so their effects land after the failure was reported.
C15_FailFastSiblingsRun == []C15_State /\ [][C15_Step]_vars

\* The run raised with numberOfLeads = 0; a lead of the failed page and its
\* enrichment were written afterwards by a segment taken after the failure.
C15_Witness ==
  \E j \in DOMAIN pipe : \E i \in DOMAIN pipe[j].pw :
    /\ pipe[j].outcome = "error"
    /\ pipe[j].pw[i].st = "failed"
    /\ pub.numberOfLeads = 0
    /\ Len(pipe[j].pw[i].segs) = 3
    /\ pipe[j].pw[i].segs[1].st = "rejected"
    /\ pipe[j].pw[i].segs[3].st = "ret1"
    /\ \E l \in ActiveLeads(leads) : l.id = <<j, i, 3>>
    /\ EnrichmentStatus(enrichments, <<j, i, 3>>) = "DONE"

\* ---------------------------------------------------------------- C16
FailedAttempts(outs) == {a \in DOMAIN outs : outs[a] = "fail"}
OkAttempts(outs) == {a \in DOMAIN outs : outs[a] = "ok"}

\* C16: the helper makes attempts one at a time until the first success or
\* until maxAttempts were made; it returns the first successful response;
\* when every attempt fails it throws the error of the last attempt; it
\* sleeps between attempts only, never after the last one; with maxAttempts
\* = 1 it makes one attempt and computes no delay.
C16_RetryHelper ==
  cwr.pc # "idle" =>
    LET oks == OkAttempts(cwr.outs)
    IN  /\ cwr.made \in 1..cwr.maxAttempts
        /\ \A a \in 1..(cwr.made - 1) : cwr.outs[a] = "fail"
        /\ oks # {} =>
              /\ cwr.pc = "returned"
              /\ cwr.made \in oks
              /\ \A a \in oks : cwr.made <= a
              /\ cwr.response = cwr.payloads[cwr.made]
              /\ cwr.error = 0
        /\ oks = {} =>
              /\ cwr.pc = "thrown"
              /\ cwr.made = cwr.maxAttempts
              /\ cwr.error = cwr.payloads[cwr.maxAttempts]
              /\ cwr.from = cwr.maxAttempts
              /\ cwr.response = 0
        /\ cwr.sleeps = cwr.made - 1
        /\ cwr.sleptAfter = 1..(cwr.made - 1)
        /\ cwr.delays = cwr.sleeps
        /\ cwr.maxAttempts = 1 => cwr.made = 1 /\ cwr.delays = 0

\* Three attempts failed with different errors; the third one's is thrown
\* after two sleeps.
C16_Witness ==
  /\ cwr.pc = "thrown"
  /\ cwr.maxAttempts = 3
  /\ cwr.payloads = <<1, 1, 2>>
  /\ cwr.error = 2
  /\ cwr.sleeps = 2

\* ---------------------------------------------------------------- C17
FailedRasterRuns == {j \in DOMAIN raster : raster[j].outcome = "error"}

\* C17: each rasterization failure sets status PROCESS_PAGE_ERROR and adds
\* one to processPageAttempt, so that after k failed rasterization runs the
\* counter is k.
C17_AttemptCountsFailures ==
  /\ pub.processPageAttempt = Cardinality(FailedRasterRuns)
  /\ \A j \in FailedRasterRuns :
       (j = Len(raster) /\ scheduled.rasterJobs = 0) =>
          pub.status = "PROCESS_PAGE_ERROR"

\* ---------------------------------------------------------------- C18
RaisedRasterRuns == {j \in DOMAIN raster :
                       raster[j].pc = "done" /\ raster[j].outcome = "error"}

\* C18: whenever a stage job has raised to its caller, the publication
\* carries the error status of that stage together with a stored error
\* message or code describing the failure (until a retry clears them).
C18_ErrorIsRecorded ==
  \A j \in RaisedRasterRuns :
     (j = Len(raster) /\ scheduled.rasterJobs = 0
                      /\ pub.status = "PROCESS_PAGE_ERROR") =>
        (pub.errorMessage # "unset" \/ pub.errorCode # "unset")

\* ---------------------------------------------------------------- C19
\* The page workers whose upsertPageOcr call commits in this step.
OcrUpserts ==
  {w \in {<<j, i>> : j \in DOMAIN pipe, i \in 1..MaxPages} :
     /\ w[2] \in DOMAIN pipe[w[1]].pw
     /\ pipe[w[1]].pw[w[2]].st = "upsertOcr"
     /\ w[2] \in DOMAIN pipe'[w[1]].pw
     /\ pipe'[w[1]].pw[w[2]].st = "segment"}

C19_State == \A n \in DOMAIN pageOcr : Len(pageOcr[n]) <= 1

C19_Step ==
  /\ \A w \in OcrUpserts :
       pageOcr'[pipe[w[1]].pgs[w[2]].pageNumber] =
          <<[job |-> w[1], page |-> w[2]]>>
  /\ \A n \in DOMAIN pageOcr :
       pageOcr'[n] # pageOcr[n] =>
          \E w \in OcrUpserts : pipe[w[1]].pgs[w[2]].pageNumber = n

\* C19: upsertPageOcr leaves at most one PageOcr row per (publication, page
\* number), and after each call that row holds the values of that call; no
\* other step changes the rows.
C19_OneOcrRowLastCallWins == []C19_State /\ [][C19_Step]_vars

\* A page number upserted by two different page workers holds one row.
C19_Witness ==
  \E n \in DOMAIN pageOcr :
     /\ Len(pageOcr[n]) = 1
     /\ \E j \in DOMAIN pipe : \E i \in DOMAIN pipe[j].pw :
          /\ <<j, i>> # <<pageOcr[n][1].job, pageOcr[n][1].page>>
          /\ pipe[j].pgs[i].pageNumber = n
          /\ pipe[j].pw[i].st \in {"segment", "segs", "ok"}

\* ------------------------------------------- the chunk loop, taken alone
\* The for loop of enqueuePublicationProcessing over the windows of a
\* document of pageCount pages, with any chunk size.  windows: one entry per
\* iteration, with the upload URLs generated for it, whether its
\* /pdf/process call returned and how many rows it returned.
processInChunks ==
  /\ chunkLoop.pc = "idle"
  /\ \E pageCount \in 0..MaxChunkPages, chunkSize \in 1..MaxChunkSize :
       chunkLoop' = [pc |-> IF 1 <= pageCount THEN "loop" ELSE "sorted",
                     pageCount |-> pageCount, chunkSize |-> chunkSize,
                     startPage |-> 1, windows |-> <<>>]
  /\ UNCHANGED <<program, mwc, cwr, upsertCalls, backoff, geometry, leadCall>>

\* One iteration: the upload URLs, the retried /pdf/process call, the check
\* of the result count, and the loop's increment and test.
ChunkIteration ==
  /\ chunkLoop.pc = "loop"
  /\ LET startPage == chunkLoop.startPage
         endPage == ChunkEnd(startPage, chunkLoop.pageCount, chunkLoop.chunkSize)
         expectedChunkPages == endPage - startPage + 1
     IN  \E outs \in AttemptOutcomes(PdfMaxAttempts),
            rows \in (Max(0, expectedChunkPages - 1))..(expectedChunkPages + 1) :
           LET call == withRetry(outs, PdfMaxAttempts)
               passed == call.ok /\ rows = expectedChunkPages
               next == startPage + chunkLoop.chunkSize
               window == [startPage |-> startPage, endPage |-> endPage,
                          uploads |-> expectedChunkPages,
                          attempts |-> call.attempts, returned |-> call.ok,
                          rows |-> IF call.ok THEN rows ELSE 0,
                          after |-> Len(chunkLoop.windows)]
           IN  chunkLoop' =
                 [chunkLoop EXCEPT
                    !.windows = Append(@, window),
                    !.startPage = IF passed THEN next ELSE @,
                    !.pc = IF ~passed THEN "thrown"
                           ELSE IF next <= chunkLoop.pageCount THEN "loop"
                           ELSE "sorted"]
  /\ UNCHANGED <<program, mwc, cwr, upsertCalls, backoff, geometry, leadCall>>

\* The loop has ended, by its test or by a throw.
ChunkLoopEnds ==
  /\ chunkLoop.pc \in {"thrown", "sorted"}
  /\ chunkLoop' = NoChunkLoop
  /\ UNCHANGED <<program, mwc, cwr, upsertCalls, backoff, geometry, leadCall>>

ChunkNext == processInChunks \/ ChunkIteration \/ ChunkLoopEnds

SpecChunks == Init /\ [][ChunkNext]_vars

\* ------------------------------------------------ the backoff, taken alone
\* The delay postPipelineWithRetry computes after failed attempt `attempt`.
\* Delays are whole milliseconds from the environment; Math.random() is
\* random / RandomSteps.
RECURSIVE Pow2(_)
Pow2(n) == IF n = 0 THEN 1 ELSE 2 * Pow2(n - 1)

\* A variant without the cap.
exponentialDelay_Uncapped(baseDelayMs, maxDelayMs, attempt) ==
  baseDelayMs * Pow2(attempt - 1)

exponentialDelay(baseDelayMs, maxDelayMs, attempt) ==
  Min(maxDelayMs, baseDelayMs * Pow2(attempt - 1))

\* Math.max(0, Math.round(exponentialDelay + jitterOffset)) with
\* jitterOffset = exponentialDelay * jitterPercent / 100 * (2 * random - 1);
\* Math.round(x) is the floor of x + 1/2.  Everything is put over the
\* denominator 100 * RandomSteps; \div is the floor.
delayMs(delay, jitterPercent, random) ==
  LET den == 100 * RandomSteps
      jitterOffset == delay * jitterPercent * (2 * random - RandomSteps)
  IN  Max(0, (delay * den + jitterOffset + 50 * RandomSteps) \div den)

JitterPercents == {0, 20, 60, 100}

computeBackoff ==
  /\ backoff.pc = "idle"
  /\ \E baseDelayMs \in 1..MaxBaseDelay, maxDelayMs \in 1..MaxMaxDelay,
        jitterPercent \in JitterPercents, attempt \in 1..MaxBackoffAttempt,
        random \in 0..(RandomSteps - 1) :
       LET delay == exponentialDelay(baseDelayMs, maxDelayMs, attempt)
       IN  backoff' = [pc |-> "sleeping", baseDelayMs |-> baseDelayMs,
                       maxDelayMs |-> maxDelayMs, jitterPercent |-> jitterPercent,
                       attempt |-> attempt, random |-> random,
                       exponentialDelay |-> delay,
                       delayMs |-> delayMs(delay, jitterPercent, random)]
  /\ UNCHANGED <<program, mwc, cwr, upsertCalls, chunkLoop, geometry, leadCall>>

\* The sleep is over.
BackoffSlept ==
  /\ backoff.pc = "sleeping"
  /\ backoff' = NoBackoff
  /\ UNCHANGED <<program, mwc, cwr, upsertCalls, chunkLoop, geometry, leadCall>>

BackoffNext == computeBackoff \/ BackoffSlept

SpecBackoff == Init /\ [][BackoffNext]_vars

\* ------------------------------------- the geometry helpers, taken alone
\* A box is the list of numbers the service sent; a word is an OCR word box.
\* Texts are lists of characters.
Coords == 0..MaxCoord
FourNumbers == [1..4 -> Coords]
ShortBox == <<0, 0, 1>>
WordTexts == {<<"A">>, <<"B">>}
WordBoxes == [text : WordTexts, bbox : FourNumbers \cup {ShortBox}]
WordLists == UNION {[1..n -> WordBoxes] : n \in 0..MaxWords}

\* assertBbox throws or returns the box it was given.
assertBboxThrows(bbox) ==
  \/ Len(bbox) # 4
  \/ bbox[3] <= bbox[1] \/ bbox[4] <= bbox[2]

\* A variant in which boxes that share an edge or a corner overlap.
overlaps_TouchingCounts(a, b) ==
  LET x1 == Max(a[1], b[1])
      y1 == Max(a[2], b[2])
      x2 == Min(a[3], b[3])
      y2 == Min(a[4], b[4])
  IN  x2 >= x1 /\ y2 >= y1

overlaps(a, b) ==
  LET x1 == Max(a[1], b[1])
      y1 == Max(a[2], b[2])
      x2 == Min(a[3], b[3])
      y2 == Min(a[4], b[4])
  IN  x2 > x1 /\ y2 > y1

\* words.map((word) => word.text).join(" ")
RECURSIVE JoinTexts(_)
JoinTexts(words) ==
  IF words = <<>> THEN <<>>
  ELSE IF Len(words) = 1 THEN words[1].text
  ELSE words[1].text \o <<" ">> \o JoinTexts(Tail(words))

\* A variant that keeps every word of the page.
wordsInSegment_EveryWord(words, bbox) ==
  LET four == SelectSeq(words, LAMBDA word : Len(word.bbox) = 4)
  IN  IF \E i \in DOMAIN four : assertBboxThrows(four[i].bbox)
      THEN [threw |-> TRUE, text |-> <<>>]
      ELSE [threw |-> FALSE, text |-> JoinTexts(four)]

\* wordsInSegment: the second filter calls assertBbox on every word box of
\* four numbers, so one that fails it ends the call with its error.
wordsInSegment(words, bbox) ==
  LET four == SelectSeq(words, LAMBDA word : Len(word.bbox) = 4)
  IN  IF \E i \in DOMAIN four : assertBboxThrows(four[i].bbox)
      THEN [threw |-> TRUE, text |-> <<>>]
      ELSE [threw |-> FALSE,
            text |-> JoinTexts(SelectSeq(four,
                       LAMBDA word : overlaps(word.bbox, bbox)))]

callAssertBbox ==
  /\ geometry.pc = "idle"
  /\ \E bbox \in FourNumbers \cup {ShortBox} :
       geometry' = [pc |-> "assertBbox", bbox |-> bbox,
                    threw |-> assertBboxThrows(bbox)]
  /\ UNCHANGED <<program, mwc, cwr, upsertCalls, chunkLoop, backoff, leadCall>>

callOverlaps ==
  /\ geometry.pc = "idle"
  /\ \E a \in FourNumbers, b \in FourNumbers :
       geometry' = [pc |-> "overlaps", a |-> a, b |-> b, result |-> overlaps(a, b)]
  /\ UNCHANGED <<program, mwc, cwr, upsertCalls, chunkLoop, backoff, leadCall>>

\* The segment mapper: const bbox = assertBbox(segment.bbox), then
\* wordsInSegment(wordBoxes, bbox).
callWordsInSegment ==
  /\ geometry.pc = "idle"
  /\ \E words \in WordLists, bbox \in FourNumbers :
       /\ ~assertBboxThrows(bbox)
       /\ LET r == wordsInSegment(words, bbox)
          IN  geometry' = [pc |-> "wordsInSegment", words |-> words, bbox |-> bbox,
                           threw |-> r.threw, text |-> r.text]
  /\ UNCHANGED <<program, mwc, cwr, upsertCalls, chunkLoop, backoff, leadCall>>

GeometryCallEnds ==
  /\ geometry.pc # "idle"
  /\ geometry' = NoGeometryCall
  /\ UNCHANGED <<program, mwc, cwr, upsertCalls, chunkLoop, backoff, leadCall>>

GeometryNext ==
  callAssertBbox \/ callOverlaps \/ callWordsInSegment \/ GeometryCallEnds

SpecGeometry == Init /\ [][GeometryNext]_vars

\* ------------------------------------- the createAiLead call, taken alone
\* What the segment mapper stores for a segment classified as a lead.  A
\* confidence is a number of thousandths, or missing (given = FALSE).
MissingConfidence == [given |-> FALSE, value |-> 0]
Confidences ==
  {MissingConfidence} \cup
  {[given |-> TRUE, value |-> m] : m \in (0 - ConfidenceMargin)..(1000 + ConfidenceMargin)}

\* confidence ?? 0.5
ConfidenceOrDefault(confidence) ==
  IF confidence.given THEN confidence.value ELSE 500
Predictions == {"missing", "positive", "negative"}

\* Math.round(x) is the floor of x + 1/2; x = thousandths / 10.
MathRound(tenths) == (tenths + 5) \div 10

\* A variant without the clamp.
confidenceScore_Unclamped(confidence) ==
  MathRound(ConfidenceOrDefault(confidence))

\* Math.max(0, Math.min(100, Math.round((confidence ?? 0.5) * 100)))
confidenceScore(confidence) ==
  Max(0, Min(100, MathRound(ConfidenceOrDefault(confidence))))

\* classifyResult.prediction ?? "positive"
predictionOf(prediction) ==
  IF prediction = "missing" THEN "positive" ELSE prediction

callCreateAiLead ==
  /\ leadCall.pc = "idle"
  /\ \E confidence \in Confidences, prediction \in Predictions :
       leadCall' = [pc |-> "created", confidence |-> confidence,
                    prediction |-> prediction,
                    lead |-> [confidenceScore |-> confidenceScore(confidence),
                              prediction |-> predictionOf(prediction)]]
  /\ UNCHANGED <<program, mwc, cwr, upsertCalls, chunkLoop, backoff, geometry>>

LeadCallEnds ==
  /\ leadCall.pc = "created"
  /\ leadCall' = NoLeadCall
  /\ UNCHANGED <<program, mwc, cwr, upsertCalls, chunkLoop, backoff, geometry>>

LeadCallNext == callCreateAiLead \/ LeadCallEnds

SpecLeadCall == Init /\ [][LeadCallNext]_vars

\* ------------------------------------- upsertLeadEnrichment, taken alone
\* Any sequence of calls, with any status the validator admits, on a few
\* leads.
EnrichmentStatuses == {"PENDING", "PROCESSING", "DONE", "ERROR"}
UpsertLeadIds == {<<1, 1, k>> : k \in 1..MaxUpsertLeads}

CallsMade(calls, id) == IF id \in DOMAIN calls THEN calls[id] ELSE 0

CallUpsertLeadEnrichment ==
  /\ \E id \in UpsertLeadIds, status \in EnrichmentStatuses,
        errorMessage \in {"none", "message"} :
       /\ CallsMade(upsertCalls, id) < MaxUpsertCalls
       /\ enrichments' =
            PutEnrichment(id,
              upsertLeadEnrichment(EnrichmentRows(id), status, errorMessage))
       /\ upsertCalls' =
            [k \in DOMAIN upsertCalls \cup {id} |->
               IF k = id THEN CallsMade(upsertCalls, id) + 1 ELSE upsertCalls[k]]
  /\ UNCHANGED <<pub, pages, pageOcr, leads, scheduled, raster, pipe,
                 retryResponse, renderDims, segmentBudget, envConcurrency, mwc,
                 cwr, chunkLoop, backoff, geometry, leadCall>>

UpsertNext == CallUpsertLeadEnrichment

SpecUpsert == Init /\ [][UpsertNext]_vars

\* ---------------------------------------------------------------- C20
C20_State ==
  \A id \in DOMAIN enrichments :
     /\ Len(enrichments[id]) <= 1
     /\ CallsMade(upsertCalls, id) > 0 => Len(enrichments[id]) = 1

C20_Step ==
  \A id \in DOMAIN enrichments' :
     LET called == CallsMade(upsertCalls', id) # CallsMade(upsertCalls, id)
         old == EnrichmentRows(id)
         new == enrichments'[id]
         stamped(field) ==
           /\ new # <<>>
           /\ new[1][field]
           /\ (called \/ old = <<>> \/ ~old[1][field])
     IN  /\ ~called => new = old
         /\ stamped("startedAt") => called /\ new[1].status = "PROCESSING"
         /\ stamped("completedAt") =>
              called /\ new[1].status \in {"DONE", "ERROR"}

\* C20: after any sequence of upsertLeadEnrichment calls a lead has at most
\* one LeadEnrichment row; a call stamps startedAt only when its status is
\* PROCESSING and completedAt only when its status is DONE or ERROR, and
\* nothing else stamps them.
C20_OneRowAndStamps == []C20_State /\ [][C20_Step]_vars

\* A lead upserted at least twice, last into DONE: one row, completed.
C20_Witness ==
  \E id \in DOMAIN enrichments :
     /\ CallsMade(upsertCalls, id) >= 2
     /\ Len(enrichments[id]) = 1
     /\ enrichments[id][1].status = "DONE"
     /\ enrichments[id][1].completedAt
     /\ ~enrichments[id][1].startedAt

\* ---------------------------------------------------------------- C21
\* C21: once deletePublication has completed, no Page, PageOcr, Lead or
\* LeadEnrichment row references the deleted publication, whatever a job
\* still running for it does afterwards.
C21_NoRowOutlivesPublication ==
  ~pub.exists =>
     /\ pages = <<>>
     /\ \A n \in DOMAIN pageOcr : pageOcr[n] = <<>>
     /\ leads = {}
     /\ \A id \in DOMAIN enrichments : enrichments[id] = <<>>

\* ---------------------------------------------------------------- C22
\* Segments of a page whose box failed assertBbox, and segments that were
\* rejected for another reason.
InvalidBoxes(pg) ==
  {k \in DOMAIN pg.segs : ~pg.segs[k].valid /\ pg.segs[k].st = "rejected"}
OtherRejections(pg) ==
  {k \in DOMAIN pg.segs : pg.segs[k].valid /\ pg.segs[k].st = "rejected"}

\* C22: a segment whose box is invalid aborts that segment only; its page
\* is not reported failed because of it.
C22_InvalidBoxSparesPage ==
  \A j \in LivePipe : \A i \in DOMAIN pipe[j].pw :
     (InvalidBoxes(pipe[j].pw[i]) # {} /\ OtherRejections(pipe[j].pw[i]) = {})
        => pipe[j].pw[i].st # "failed"

\* ---------------------------------------------------------------- C23
\* Pages of a run for which a page mapper or a segment mapper is under way,
\* and the /classify/lead and /enrich/lead calls outstanding.
PagesInProcess(job) ==
  {i \in DOMAIN job.pw :
     \/ job.pw[i].st \in {"ocr", "upsertOcr", "segment", "segs"}
     \/ \E k \in DOMAIN job.pw[i].segs : job.pw[i].segs[k].st \in SegmentRunning}

SegmentCallsInFlight(job) ==
  {<<i, k>> \in (DOMAIN job.pw) \X (1..MaxSegmentsSerial) :
     /\ k \in DOMAIN job.pw[i].segs
     /\ job.pw[i].segs[k].st \in {"classify", "enrich"}}

C23_PageCap ==
  \A j \in DOMAIN pipe :
     Cardinality(PagesInProcess(pipe[j])) <= Max(1, envConcurrency.page)

C23_SegmentCap ==
  \A j \in DOMAIN pipe :
     Cardinality(SegmentCallsInFlight(pipe[j])) <=
        Max(1, envConcurrency.page) * Max(1, envConcurrency.segment)

\* C23: during a lead-extraction run at most pageConcurrency pages are in
\* process at once and at most pageConcurrency x segmentConcurrency
\* classify or enrich calls are outstanding, also after a page has failed.
C23_CapsHold == C23_PageCap /\ C23_SegmentCap

\* ---------------------------------------------------------------- C24
\* Workers of the call whose mapper invocation has not settled.
InFlight(call) == {w \in DOMAIN call.workers : call.workers[w].st = "awaiting"}

\* C24: at every moment of one mapWithConcurrency(items, k, mapper) call at
\* most min(max(1, k), items.length) mapper invocations are in flight, each
\* on an index of its own, for every k and every completion order.
C24_InFlightBounded ==
  mwc.pc # "idle" =>
    /\ Cardinality(InFlight(mwc)) <=
          Min(Max(1, mwc.concurrency), Len(mwc.items))
    /\ \A v, w \in InFlight(mwc) :
          v # w => mwc.workers[v].current # mwc.workers[w].current

\* A call with k <= 0 over several items, one invocation in flight after
\* another has completed.
C24_Witness ==
  /\ mwc.pc # "idle"
  /\ mwc.concurrency <= 0
  /\ Len(mwc.items) = MaxItems
  /\ Len(mwc.completed) >= 1
  /\ Cardinality(InFlight(mwc)) = 1

\* ---------------------------------------------------------------- C25
\* Page workers of a run that call or have called upsertPageOcr.
OcrWriters(job) ==
  {i \in DOMAIN job.pw : job.pw[i].st \in {"upsertOcr", "segment", "segs", "ok"}}

\* C25: within one lead-extraction run every page is processed by one
\* worker, and no two workers of the run write the PageOcr row of the same
\* (publication, page number).
C25_OneWriterPerOcrRow ==
  \A j \in DOMAIN pipe : \A a, b \in OcrWriters(pipe[j]) :
     a # b => pipe[j].pgs[a].pageNumber # pipe[j].pgs[b].pageNumber

\* ---------------------------------------------------------------- C26
\* Lead ids the model can create: <<run, page index, segment index>>.
PipelineLeadIds == (1..(MaxRetries + 1)) \X (1..MaxPages) \X (1..MaxSegments)

\* The state of the segment mapper that works on lead id.
SegmentStateOf(jobs, id) ==
  IF /\ id[1] \in DOMAIN jobs
     /\ id[2] \in DOMAIN jobs[id[1]].pw
     /\ id[3] \in DOMAIN jobs[id[1]].pw[id[2]].segs
  THEN jobs[id[1]].pw[id[2]].segs[id[3]].st ELSE "gone"

\* While the /enrich/lead call of a lead is outstanding its lead exists and
\* its row is PROCESSING.
C26_State ==
  \A id \in PipelineLeadIds :
     SegmentStateOf(pipe, id) = "enrich" =>
        /\ id \in {l.id : l \in leads}
        /\ EnrichmentStatus(enrichments, id) = "PROCESSING"

\* A row appears as PROCESSING, written by the mapper right after
\* createAiLead, and changes only from PROCESSING to DONE or ERROR.
C26_Step ==
  \A id \in PipelineLeadIds :
     LET old == EnrichmentStatus(enrichments, id)
         new == EnrichmentStatus(enrichments', id)
     IN  old # new =>
           \/ /\ old = "none" /\ new = "PROCESSING"
              /\ id \in {l.id : l \in leads}
              /\ SegmentStateOf(pipe, id) = "upsertProc"
              /\ SegmentStateOf(pipe', id) = "enrich"
           \/ old = "PROCESSING" /\ new \in {"DONE", "ERROR"}

C26_Safety == []C26_State /\ [][C26_Step]_vars

C26_Liveness ==
  \A id \in PipelineLeadIds :
     (EnrichmentStatus(enrichments, id) = "PROCESSING")
        ~> (EnrichmentStatus(enrichments, id) # "PROCESSING")

WindowPassed(w) == w.returned /\ w.rows = w.endPage - w.startPage + 1

\* C27: the /pdf/process calls of the chunk loop are issued for windows that
\* partition 1..pageCount in increasing order, each of at most chunkSize
\* pages and only the last shorter, each with end-start+1 upload targets, and
\* a window is called only after the one before it has returned and passed
\* the result-count check.
C27_WindowsPartitionInOrder ==
  chunkLoop.pc # "idle" =>
    LET ws == chunkLoop.windows
        m == Len(ws)
    IN  /\ \A a \in 1..m :
             /\ ws[a].startPage = IF a = 1 THEN 1 ELSE ws[a - 1].endPage + 1
             /\ ws[a].startPage <= ws[a].endPage
             /\ ws[a].endPage <= chunkLoop.pageCount
             /\ ws[a].endPage - ws[a].startPage + 1 <= chunkLoop.chunkSize
             /\ ws[a].endPage < chunkLoop.pageCount =>
                  ws[a].endPage - ws[a].startPage + 1 = chunkLoop.chunkSize
             /\ ws[a].uploads = ws[a].endPage - ws[a].startPage + 1
             /\ ws[a].after = a - 1
             /\ a < m => WindowPassed(ws[a])
        /\ chunkLoop.pc \in {"loop", "sorted"} =>
             \A a \in 1..m : WindowPassed(ws[a])
        /\ chunkLoop.pc = "sorted" =>
             IF chunkLoop.pageCount = 0 THEN m = 0
             ELSE ws[m].endPage = chunkLoop.pageCount
        /\ chunkLoop.pc = "thrown" => m >= 1 /\ ~WindowPassed(ws[m])

\* A loop that ran to its end over several windows, the last one shorter.
C27_Witness ==
  /\ chunkLoop.pc = "sorted"
  /\ Len(chunkLoop.windows) >= 2
  /\ LET w == chunkLoop.windows[Len(chunkLoop.windows)]
     IN  w.endPage - w.startPage + 1 < chunkLoop.chunkSize

\* ---------------------------------------------------------------- C28
\* C28: rasterization goes past analyze only when the response carries a
\* page count that is a non-negative integer; a response whose page count is
\* missing, negative or not an integer fails the stage and no chunk call is
\* issued.
C28_AnalyzeGate ==
  \A j \in LiveRaster :
     /\ (\/ raster[j].pc \in {"chunks", "persist", "stats", "status", "schedule"}
         \/ raster[j].outcome = "ok")
          => raster[j].analyzed = "count"
     /\ raster[j].analyzed \in {"missing", "invalid"} =>
          /\ raster[j].calls = <<>>
          /\ raster[j].pc \in {"catch", "done"}
          /\ raster[j].pc = "done" =>
               raster[j].outcome = "error" /\ pages = <<>>

\* ---------------------------------------------------------------- C29
\* Lead rows that run j created for the page its worker i processed.
LeadsOfPage(j, i) == {l \in leads : l.id[1] = j /\ l.id[2] = i}

RECURSIVE SumOfCounts(_, _)
SumOfCounts(pw, n) == IF n = 0 THEN 0 ELSE pw[n].count + SumOfCounts(pw, n - 1)

\* C29: the createdLeadCount of a page reported ok is the number of Lead
\* rows the run created for it, which is the number of its segments
\* classified as leads; a segment classified as no lead has neither a Lead
\* nor a LeadEnrichment row; the run's createdLeadCount is the sum over its
\* pages.
C29_CreatedLeadCount ==
  \A j \in LivePipe :
     LET job == pipe[j]
     IN  /\ \A i \in DOMAIN job.pw :
              /\ job.pw[i].st = "ok" =>
                   /\ job.pw[i].count = Cardinality(LeadsOfPage(j, i))
                   /\ job.pw[i].count =
                        Cardinality({k \in DOMAIN job.pw[i].segs :
                                       job.pw[i].segs[k].st = "ret1"})
              /\ \A k \in DOMAIN job.pw[i].segs :
                   job.pw[i].segs[k].st = "ret0" =>
                      /\ <<j, i, k>> \notin {l.id : l \in leads}
                      /\ EnrichmentRows(<<j, i, k>>) = <<>>
         /\ job.finalized > 0 =>
              job.createdLeadCount = SumOfCounts(job.pw, Len(job.pw))

\* A finished run with a page reported ok that has a segment classified as
\* a lead and one classified as no lead.
C29_Witness ==
  \E j \in LivePipe : \E i \in DOMAIN pipe[j].pw :
     /\ pipe[j].pc = "done"
     /\ pipe[j].createdLeadCount >= 1
     /\ pipe[j].pw[i].st = "ok"
     /\ \E k1, k2 \in DOMAIN pipe[j].pw[i].segs :
          pipe[j].pw[i].segs[k1].st = "ret1" /\ pipe[j].pw[i].segs[k2].st = "ret0"

\* ---------------------------------------------------------------- C30
Abs(x) == IF x < 0 THEN -x ELSE x

\* The delay before jitter is min(maxDelay, baseDelay * 2^(n-1)), within
\* [0, maxDelay].
C30_BeforeJitter ==
  /\ backoff.exponentialDelay \in 0..backoff.maxDelayMs
  /\ \/ backoff.exponentialDelay = backoff.baseDelayMs * Pow2(backoff.attempt - 1)
     \/ /\ backoff.exponentialDelay = backoff.maxDelayMs
        /\ backoff.maxDelayMs <= backoff.baseDelayMs * Pow2(backoff.attempt - 1)

\* C30 (as stated): the delay before retry n is min(maxDelay,
\* baseDelay * 2^(n-1)), within [0, maxDelay]; the delay slept differs from
\* it by at most jitterPercent% of it and is never negative.
C30_JitterWithinPercent ==
  backoff.pc = "sleeping" =>
    /\ C30_BeforeJitter
    /\ backoff.delayMs >= 0
    /\ 100 * Abs(backoff.delayMs - backoff.exponentialDelay) <=
          backoff.jitterPercent * backoff.exponentialDelay

\* C30 (amended): the same, the delay slept being rounded to a whole
\* millisecond: it differs from the delay before jitter by at most
\* jitterPercent% of it plus half a millisecond.
C30_JitterWithinPercentRounded ==
  backoff.pc = "sleeping" =>
    /\ C30_BeforeJitter
    /\ backoff.delayMs >= 0
    /\ 100 * Abs(backoff.delayMs - backoff.exponentialDelay) <=
          backoff.jitterPercent * backoff.exponentialDelay + 50

\* A capped delay that the jitter moved.
C30_Witness ==
  /\ backoff.pc = "sleeping"
  /\ backoff.attempt >= 2
  /\ backoff.exponentialDelay = backoff.maxDelayMs
  /\ backoff.maxDelayMs < backoff.baseDelayMs * Pow2(backoff.attempt - 1)
  /\ backoff.delayMs # backoff.exponentialDelay

\* ---------------------------------------------------------------- C31
\* The unit cells of the plane a box covers; a box of no width or no height
\* covers none.
Cells(b) == {c \in Coords \X Coords :
               /\ b[1] <= c[1] /\ c[1] < b[3]
               /\ b[2] <= c[2] /\ c[2] < b[4]}

\* The intersection of two boxes has positive width and height.
PositiveIntersection(a, b) == Cells(a) \cap Cells(b) # {}

\* The texts, in order, of the words from position i on whose box meets the
\* segment box in positive area, joined by single spaces.
RECURSIVE TextOfOverlapping(_, _, _)
TextOfOverlapping(words, bbox, i) ==
  IF i > Len(words) THEN <<>>
  ELSE LET rest == TextOfOverlapping(words, bbox, i + 1)
           here == /\ Len(words[i].bbox) = 4
                   /\ PositiveIntersection(words[i].bbox, bbox)
           last == \A k \in (i + 1)..Len(words) :
                     ~(/\ Len(words[k].bbox) = 4
                       /\ PositiveIntersection(words[k].bbox, bbox))
       IN  IF ~here THEN rest
           ELSE IF last THEN words[i].text
           ELSE words[i].text \o <<" ">> \o rest

\* C31: the text wordsInSegment returns for a segment is the space-joined
\* text, in OCR order, of exactly the words whose box overlaps the segment
\* box; a word that does not overlap it never appears.
C31_TextIsOverlappingWords ==
  (geometry.pc = "wordsInSegment" /\ ~geometry.threw) =>
     geometry.text = TextOfOverlapping(geometry.words, geometry.bbox, 1)

\* Word A overlaps the segment, word B only touches it at a corner: "A".
C31_Witness ==
  /\ geometry.pc = "wordsInSegment"
  /\ ~geometry.threw
  /\ geometry.bbox = <<0, 0, 1, 1>>
  /\ geometry.words = <<[text |-> <<"A">>, bbox |-> <<0, 0, 2, 2>>],
                        [text |-> <<"B">>, bbox |-> <<1, 1, 2, 2>>]>>
  /\ geometry.text = <<"A">>

\* ---------------------------------------------------------------- C32
ValidBox(b) == b[1] < b[3] /\ b[2] < b[4]

\* C32: overlaps(a, b) is true exactly when the intersection of a and b has
\* positive width and height; a valid box overlaps itself; assertBbox rejects
\* every box of zero or negative width or height.
C32_OverlapsIsPositiveIntersection ==
  /\ geometry.pc = "overlaps" =>
       /\ geometry.result = PositiveIntersection(geometry.a, geometry.b)
       /\ (geometry.a = geometry.b /\ ValidBox(geometry.a)) => geometry.result
  /\ (geometry.pc = "assertBbox" /\ Len(geometry.bbox) = 4) =>
       (geometry.threw <=> ~ValidBox(geometry.bbox))

\* Two valid boxes that share an edge only were compared.
C32_Witness ==
  /\ geometry.pc = "overlaps"
  /\ geometry.a = <<0, 0, 1, 2>>
  /\ geometry.b = <<1, 0, 2, 2>>
  /\ ~geometry.result

\* ---------------------------------------------------------------- C38
\* C38: for every word list that passed the OCR filter and every valid
\* segment box, wordsInSegment returns without raising.
C38_TextAssociationNeverFails ==
  (/\ geometry.pc = "wordsInSegment"
   /\ \A i \in DOMAIN geometry.words : Len(geometry.words[i].bbox) = 4)
    => ~geometry.threw

\* ---------------------------------------------------------------- C33
\* clamp(c, 0, 1) * 100, in tenths, for a confidence c in thousandths.
ClampedTenths(c) == IF c < 0 THEN 0 ELSE IF c > 1000 THEN 1000 ELSE c

\* The nearest integer to a number of tenths, halves going up.
Nearest(tenths) ==
  CHOOSE n \in 0..100 : 10 * n - 5 <= tenths /\ tenths < 10 * n + 5

\* C33: a lead created from a classification with confidence c is stored
\* with confidenceScore = round(clamp(c, 0, 1) * 100), an integer in 0..100;
\* a missing confidence counts as 0.5 and a missing prediction is stored as
\* "positive".
C33_ConfidenceScore ==
  leadCall.pc = "created" =>
    LET c == IF leadCall.confidence.given THEN leadCall.confidence.value ELSE 500
    IN  /\ leadCall.lead.confidenceScore \in 0..100
        /\ leadCall.lead.confidenceScore = Nearest(ClampedTenths(c))
        /\ ~leadCall.confidence.given => leadCall.lead.confidenceScore = 50
        /\ leadCall.lead.prediction =
             (IF leadCall.prediction = "missing" THEN "positive"
              ELSE leadCall.prediction)

\* Confidence 0.87 and no prediction: stored as 87, "positive".
C33_Witness ==
  /\ leadCall.pc = "created"
  /\ leadCall.confidence = [given |-> TRUE, value |-> 870]
  /\ leadCall.prediction = "missing"
  /\ leadCall.lead = [confidenceScore |-> 87, prediction |-> "positive"]

\* ---------------------------------------------------------------- C34
\* A rasterization job ends having written LEAD_PROCESSING or
\* PROCESS_PAGE_ERROR, a lead-extraction job having written LEADS_FOUND,
\* NO_LEADS_FOUND or PROCESS_LEAD_ERROR.
C34_Step ==
  /\ \A j \in DOMAIN raster :
       (raster[j].pc # "done" /\ raster'[j].pc = "done") =>
          /\ raster'[j].outcome = "ok" => pub'.status = "LEAD_PROCESSING"
          /\ raster'[j].outcome = "error" => pub'.status = "PROCESS_PAGE_ERROR"
          /\ raster'[j].outcome \in {"ok", "error"}
  /\ \A j \in DOMAIN pipe :
       (pipe[j].pc # "done" /\ pipe'[j].pc = "done") =>
          /\ pipe'[j].outcome = "ok" =>
                pub'.status \in {"LEADS_FOUND", "NO_LEADS_FOUND"}
          /\ pipe'[j].outcome = "error" => pub'.status = "PROCESS_LEAD_ERROR"
          /\ pipe'[j].outcome \in {"ok", "error"}

C34_EndStatus == [][C34_Step]_vars

\* No job is scheduled or running.
Quiescent ==
  /\ scheduled = NothingScheduled
  /\ \A j \in DOMAIN raster : raster[j].pc = "done"
  /\ \A j \in DOMAIN pipe : pipe[j].pc = "done"

\* With no job scheduled or running the publication is in neither
\* processing status.
C34_State ==
  (pub.exists /\ Quiescent) =>
     pub.status \notin {"PAGE_PROCESSING", "LEAD_PROCESSING"}

\* Again and again every job scheduled so far has run to its end.
C34_Liveness == []<>Quiescent

\* C34: under fairness every publication eventually leaves PAGE_PROCESSING
\* and LEAD_PROCESSING: every scheduled rasterization job ends with status
\* LEAD_PROCESSING or PROCESS_PAGE_ERROR, every lead-extraction job with
\* LEADS_FOUND, NO_LEADS_FOUND or PROCESS_LEAD_ERROR.
C34_EveryJobEnds == []C34_State /\ C34_EndStatus /\ C34_Liveness

\* Both stages were retried and all four jobs have ended.
C34_Witness ==
  /\ Len(raster) = MaxJobs /\ \A j \in DOMAIN raster : raster[j].pc = "done"
  /\ Len(pipe) >= 1 /\ \A j \in DOMAIN pipe : pipe[j].pc = "done"
  /\ pub.status \in {"LEADS_FOUND", "NO_LEADS_FOUND", "PROCESS_LEAD_ERROR"}

\* ---------------------------------------------------------------- C35
\* A job of the stage is scheduled, or an invocation has not ended.
RasterScheduledOrRunning ==
  scheduled.rasterJobs > 0 \/ \E j \in DOMAIN raster : raster[j].pc # "done"

PipelineScheduledOrRunning ==
  scheduled.pipelineJobs > 0 \/ \E j \in DOMAIN pipe : pipe[j].pc # "done"

\* A worker of rasterization commits a page row; a worker of lead
\* extraction commits an OCR row, a lead or an enrichment row.
RasterWrites == pages' # pages
PipelineWrites ==
  pageOcr' # pageOcr \/ leads' # leads \/ enrichments' # enrichments

\* No stage commits a row while an invocation of the other stage runs.
C35_WriteStep ==
  /\ RasterWrites => \A j \in DOMAIN pipe : pipe[j].pc = "done"
  /\ PipelineWrites => \A j \in DOMAIN raster : raster[j].pc = "done"

C35_OneStageWrites == [][C35_WriteStep]_vars

\* A retry (the publication exists and no job took a step) schedules a job
\* of a stage only when none is scheduled or running.
C35_RetryStep ==
  (pub.exists /\ raster' = raster /\ pipe' = pipe) =>
     /\ scheduled'.rasterJobs > scheduled.rasterJobs => ~RasterScheduledOrRunning
     /\ scheduled'.pipelineJobs > scheduled.pipelineJobs =>
          ~PipelineScheduledOrRunning

C35_RetrySchedulesIdleStage == [][C35_RetryStep]_vars

\* C35: retry never schedules a stage job while a job of that stage is
\* scheduled or running, and rasterization and lead extraction never both
\* write for the publication at the same time.
C35_StagesNeverOverlap == C35_OneStageWrites /\ C35_RetrySchedulesIdleStage

\* ---------------------------------------------------------------- C36
\* Retried runs that have executed clearAiLeads.
RetriedRunsCleared == {j \in DOMAIN pipe : j > 1 /\ pipe[j].pc # "clear"}

\* C36: after a retried lead-extraction run has executed clearAiLeads, every
\* active AI lead of the publication was created by that run (or by a later
\* one): none created by an earlier run is active.
C36_NoActiveLeadOfEarlierRun ==
  \A j \in RetriedRunsCleared :
     \A l \in ActiveLeads(leads) :
        l.category = "AI_LEAD" => l.id[1] >= j

\* ---------------------------------------------------------------- C37
\* Pages of a run reported failed because a segment of theirs was rejected.
PagesFailedBySegment(job) ==
  {i \in DOMAIN job.pw :
     /\ job.pw[i].st = "failed"
     /\ \E k \in DOMAIN job.pw[i].segs : job.pw[i].segs[k].st = "rejected"}

RECURSIVE SumOfOkCounts(_, _)
SumOfOkCounts(pw, n) ==
  IF n = 0 THEN 0
  ELSE (IF pw[n].st = "ok" THEN pw[n].count ELSE 0) + SumOfOkCounts(pw, n - 1)

\* A page failed by a segment reports no created lead.
C37_State ==
  \A j \in LivePipe : \A i \in PagesFailedBySegment(pipe[j]) :
     pipe[j].pw[i].count = 0

\* At finalization the run's total leaves out the failed pages, while the
\* Lead rows their segments created are active and counted in numberOfLeads.
C37_Step ==
  \A j \in DOMAIN pipe :
     (pipe[j].pc = "finalize" /\ pipe'[j].pc # "finalize") =>
        /\ pipe'[j].createdLeadCount = SumOfOkCounts(pipe[j].pw, Len(pipe[j].pw))
        /\ pub'.numberOfLeads = Cardinality(ActiveLeads(leads'))
        /\ \A i \in PagesFailedBySegment(pipe[j]) :
             /\ LeadsOfPage(j, i) \subseteq ActiveLeads(leads')
             /\ pub'.numberOfLeads >= Cardinality(LeadsOfPage(j, i))

\* C37: a page failed by one of its segments contributes 0 to the run's
\* created-lead total, yet the Lead rows its other segments created stay
\* active and are counted in numberOfLeads at finalization.
C37_FailedPageLeadsStillCounted == []C37_State /\ [][C37_Step]_vars

\* A run just finalized: its only lead belongs to a page failed by a
\* segment, the total is 0 and numberOfLeads counts the lead.
C37_Witness ==
  \E j \in LivePipe : \E i \in PagesFailedBySegment(pipe[j]) :
     /\ pipe[j].pc = "catch"
     /\ LeadsOfPage(j, i) # {}
     /\ LeadsOfPage(j, i) \subseteq ActiveLeads(leads)
     /\ pipe[j].createdLeadCount = 0
     /\ pub.numberOfLeads >= 1
     /\ pub.status = "LEADS_FOUND"

C40_Step ==
  MissedLeads(leads') # MissedLeads(leads) =>
     /\ pub'.status = "LEADS_FOUND"
     /\ pub'.numberOfLeads = Cardinality(ActiveLeads(leads'))
     /\ retryPublicationProcessing(pub').queued = FALSE

C40_MissedLeadSetsLeadsFound == [][C40_Step]_vars

\* createMissedLead was called while a run is processing pages: the status
\* is LEADS_FOUND with the run still in flight.
C40_Witness ==
  /\ pub.status = "LEADS_FOUND"
  /\ pub.numberOfLeads = Cardinality(ActiveLeads(leads))
  /\ Cardinality(MissedLeads(leads)) = MaxMissedLeads
  /\ \E j \in DOMAIN pipe : pipe[j].pc = "pages"

====
